---- MODULE Spec2Model ----
(***************************************************************************)
(* Traffic-Flow-Sim: the simulation engine (backend/app/simulation/        *)
(* engine.py) as a state machine.                                          *)
(*                                                                         *)
(* Units.  The engine computes with Python floats; the model uses exact    *)
(* integers in fixed units:                                                *)
(*   time        milliseconds  (dt = tick_interval_ms / 1000 s)            *)
(*   durations   seconds, as in TrafficLight (compared after * 1000)       *)
(*   lat, lng    micro-degrees                                             *)
(*   speeds      centi-km/h (0.01 km/h)                                    *)
(*   distances   centimetres                                               *)
(*   spawn_rate  thousandths of a vehicle per second                       *)
(*   random()    thousandths                                               *)
(* The asyncio event loop is one thread: `cur` is the task it is running   *)
(* (0 when it is idle and free to run a request handler or resume a task). *)
(***************************************************************************)
EXTENDS Integers, Sequences, FiniteSets, TLC

(* ---------------------------------------------------------------------- *)
(* Bounds of the model                                                     *)
(* ---------------------------------------------------------------------- *)
MaxTick == 2
MaxUuid == 2
MaxClock == 1
(* The ticks of the timed scenarios: 30 s of simulated time at 100 ms *)
ScenarioTicks == 300
(* The furthest the cache's clock advances, and the most lookups of a run *)
MaxNow == 4
(* The ticks of the runs with a queue at a junction *)
QueueTicks == 45
(* The ticks of the runs in which waiting vehicles are released *)
ReleaseTicks == 8
MaxGets == 3

(* Python's None, for Optional fields; every id and every input the model
   draws is >= 0 *)
None == -1

(* ---------------------------------------------------------------------- *)
(* State                                                                   *)
(* ---------------------------------------------------------------------- *)
VARIABLES
    config,             \* SimulationEngine.config
    state,              \* SimulationEngine.state
    running,            \* SimulationEngine._running
    real_traffic_data,  \* SimulationEngine._real_traffic_data (NoSnapshot or <<snapshot>>)
    listeners,          \* SimulationEngine._listeners
    task,               \* the start() coroutines: task[t] = [pc, dt, todo]
    cur,                \* the task the event loop is executing, 0 when idle
    uuid,               \* number of uuid.uuid4() identities drawn so far
    clock,              \* the wall clock datetime.utcnow() reads
    hist,               \* what the tick in progress has done so far
    response,           \* <<what the last GET /dashboard/metrics returned>>, or <<>>
    response_cache,     \* services/cache.py: the ResponseCache instance _cache
    time_now,                \* the clock datetime.now() reads, in seconds
    returned,           \* what the last cache operation or wrapped call returned
    wrapped,            \* the function under @cache_response: its result per argument
    call_count,         \* how many times the wrapped function was executed
    pending,            \* pending[c]: <<x>> while caller c awaits func(x), else <<>>
    cache_hist,         \* what the cache's callers did so far
    env                 \* the environment of the run: which requests and inputs it makes

cacheVars == <<response_cache, time_now, returned, wrapped, call_count, pending,
               cache_hist>>

vars == <<config, state, running, real_traffic_data, listeners, task, cur,
          uuid, clock, hist, response, cacheVars, env>>

(* ---------------------------------------------------------------------- *)
(* Data model (models/traffic.py)                                          *)
(* ---------------------------------------------------------------------- *)
RED == "red"
GREEN == "green"
YELLOW == "yellow"

AGGRESSIVE == "aggressive"
NORMAL == "normal"
CAUTIOUS == "cautious"
LEARNER == "learner"
DriverProfile == {AGGRESSIVE, NORMAL, CAUTIOUS, LEARNER}

Coordinates(lat, lng) == [lat |-> lat, lng |-> lng]

TrafficLight(id, loc, g, y, r) ==
    [id |-> id, location |-> loc, current_phase |-> RED,
     green_duration |-> g, yellow_duration |-> y, red_duration |-> r,
     time_in_current_phase |-> 0, controlled_segment_ids |-> {}]

Intersection(id, loc, lights) ==
    [id |-> id, location |-> loc, traffic_lights |-> lights,
     average_wait_time |-> 0]

SimulatedVehicle(id, type, profile, pos, heading, target) ==
    [id |-> id, vehicle_type |-> type, driver_profile |-> profile,
     position |-> pos, heading |-> heading,
     current_speed |-> 0, target_speed |-> target,
     current_segment_id |-> None,
     waiting_at_light |-> FALSE, wait_time_seconds |-> 0]

SimulationState(now) ==
    [tick |-> 0, timestamp |-> now, vehicles |-> <<>>, intersections |-> <<>>,
     active_incidents |-> <<>>, total_vehicles |-> 0, average_speed |-> 0,
     total_wait_time |-> 0, vehicles_completed |-> 0]

(* ---------------------------------------------------------------------- *)
(* Arithmetic helpers (math.sqrt, math.cos, math.sin of the engine)        *)
(* ---------------------------------------------------------------------- *)
Min(a, b) == IF a < b THEN a ELSE b
Max(a, b) == IF a > b THEN a ELSE b
Abs(a) == IF a < 0 THEN -a ELSE a

SqrtSearch[n \in Nat, lo \in Nat, hi \in Nat] ==
    IF lo >= hi THEN lo
    ELSE LET mid == (lo + hi + 1) \div 2
         IN IF mid * mid <= n THEN SqrtSearch[n, mid, hi]
            ELSE SqrtSearch[n, lo, mid - 1]

(* math.sqrt, rounded down *)
Sqrt(n) == SqrtSearch[n, 0, 46340]

(* math.cos of a latitude given in micro-degrees, in thousandths:          *)
(* 1 - x^2/2 + x^4/24 - x^6/720 + x^8/40320 with x in radians.             *)
CosSeries(q, q2) ==
    1000 - q \div 2 + q2 \div 24 - ((q2 * q) \div 1000) \div 720
         + ((q2 * q2) \div 1000) \div 40320
CosSquare(q) == CosSeries(q, (q * q) \div 1000)
CosRadians(x) == CosSquare((x * x) \div 1000)
CosLat(lat) == CosRadians(((Abs(lat) \div 1000) * 17453) \div 1000000)

(* math.cos / math.sin of math.radians(heading), in thousandths, for the   *)
(* headings the model draws (multiples of 45 degrees).                     *)
HeadingCos(h) ==
    CASE h = 0 -> 1000 [] h = 45 -> 707 [] h = 90 -> 0 [] h = 135 -> -707
      [] h = 180 -> -1000 [] h = 225 -> -707 [] h = 270 -> 0 [] h = 315 -> 707
      [] h = 30 -> 866
HeadingSin(h) ==
    CASE h = 0 -> 0 [] h = 45 -> 707 [] h = 90 -> 1000 [] h = 135 -> 707
      [] h = 180 -> 0 [] h = 225 -> -707 [] h = 270 -> -1000 [] h = 315 -> -707
      [] h = 30 -> 500

(* Coordinate differences beyond 0.03 degrees (3.3 km) saturate: every     *)
(* threshold the engine compares a distance with is far smaller.           *)
DiffCap == 30000
Clip(d) == Max(-DiffCap, Min(DiffCap, d))

(* _calculate_distance: equirectangular distance, here in centimetres.     *)
(* radians(1 micro-degree) * 6371000 m = 11.12 cm.                         *)
Hypot(x, y) == (Sqrt(x * x + y * y) * 1112) \div 100
calculate_distance(a, b) ==
    Hypot((Clip(b.lng - a.lng) * CosLat((a.lat + b.lat) \div 2)) \div 1000,
          Clip(b.lat - a.lat))

(* ---------------------------------------------------------------------- *)
(* Sequence helpers                                                        *)
(* ---------------------------------------------------------------------- *)
Range(s) == {s[i] : i \in DOMAIN s}

(* ---------------------------------------------------------------------- *)
(* Traffic light control                                                   *)
(* ---------------------------------------------------------------------- *)
(* A light cycle that runs the other way round *)
next_phase_backwards(phase) ==
    CASE phase = RED -> YELLOW
      [] phase = YELLOW -> GREEN
      [] phase = GREEN -> RED
(* Next phase of the transition block of _update_traffic_lights.           *)
next_phase(phase) ==
    CASE phase = RED -> GREEN
      [] phase = YELLOW -> RED
      [] phase = GREEN -> YELLOW

(* base_phase_duration, in seconds *)
base_phase_duration(light) ==
    CASE light.current_phase = RED -> light.red_duration
      [] light.current_phase = YELLOW -> light.yellow_duration
      [] light.current_phase = GREEN -> light.green_duration

(* A GREEN phase that takes no account of the vehicles waiting *)
phase_expired_unextended(light, t, waiting_count) ==
    t >= base_phase_duration(light) * 1000

(* A phase that lasts until its duration is exceeded *)
phase_expired_late(light, t, waiting_count) ==
    t > base_phase_duration(light) * 1000

(* time_in_current_phase >= phase_duration, where phase_duration is the    *)
(* base duration, times 1 + min(0.5, waiting_count * 0.05) for a GREEN     *)
(* light with more than 5 vehicles waiting.  Both sides are scaled by 100. *)
phase_expired(light, t, waiting_count) ==
    LET base == base_phase_duration(light) * 1000
        factor == IF light.current_phase = GREEN /\ waiting_count > 5
                  THEN 100 + Min(50, waiting_count * 5)
                  ELSE 100
    IN t * 100 >= base * factor

(* One light of one intersection, one tick *)
update_light(light, waiting_count, dt) ==
    LET t == light.time_in_current_phase + dt
    IN IF phase_expired(light, t, waiting_count)
       THEN [light EXCEPT !.current_phase = next_phase(light.current_phase),
                          !.time_in_current_phase = 0]
       ELSE [light EXCEPT !.time_in_current_phase = t]

(* waiting_count of an intersection: waiting vehicles closer than 50 m *)
waiting_near(vehicles, intersection) ==
    {i \in DOMAIN vehicles :
        /\ vehicles[i].waiting_at_light
        /\ calculate_distance(vehicles[i].position, intersection.location) < 5000}

update_intersection_lights(intersection, vehicles, dt) ==
    LET wc == Cardinality(waiting_near(vehicles, intersection))
    IN [intersection EXCEPT !.traffic_lights =
          [j \in DOMAIN intersection.traffic_lights |->
              update_light(intersection.traffic_lights[j], wc, dt)]]

(* _update_traffic_lights, abandoned after `done` intersections when the   *)
(* phase raises (done = number of intersections when it does not).         *)
update_traffic_lights(intersections, vehicles, dt, done) ==
    [i \in DOMAIN intersections |->
        IF i <= done
        THEN update_intersection_lights(intersections[i], vehicles, dt)
        ELSE intersections[i]]

(* A search that settles for the first light of the first intersection *)
find_light_whatever_id(intersections, light_id) ==
    IF intersections = <<>> THEN <<>> ELSE <<1, 1>>

(* The first light with this id, as <<intersection index, light index>>,   *)
(* or <<>> when no intersection owns it.                                   *)
find_light(intersections, light_id) ==
    LET hits == UNION {{<<i, j>> : j \in {k \in DOMAIN intersections[i].traffic_lights :
                                 intersections[i].traffic_lights[k].id = light_id}} :
                       i \in DOMAIN intersections}
    IN IF hits = {} THEN <<>>
       ELSE CHOOSE p \in hits :
              \A q \in hits : p[1] < q[1] \/ (p[1] = q[1] /\ p[2] <= q[2])

(* adjust_traffic_light_timing: the value it returns *)
adjust_found(intersections, light_id) == find_light(intersections, light_id) # <<>>

(* An adjustment that starts the light's phase anew *)
adjust_restarts_phase(intersections, light_id, g, y, r) ==
    LET p == find_light(intersections, light_id)
    IN IF p = <<>> THEN intersections
       ELSE [intersections EXCEPT ![p[1]].traffic_lights[p[2]] =
               [@ EXCEPT !.green_duration = IF g # None THEN g ELSE @,
                         !.yellow_duration = IF y # None THEN y ELSE @,
                         !.red_duration = IF r # None THEN r ELSE @,
                         !.time_in_current_phase = 0]]

(* adjust_traffic_light_timing: the intersections afterwards *)
adjust_traffic_light_timing(intersections, light_id, g, y, r) ==
    LET p == find_light(intersections, light_id)
    IN IF p = <<>> THEN intersections
       ELSE [intersections EXCEPT ![p[1]].traffic_lights[p[2]] =
               [@ EXCEPT !.green_duration = IF g # None THEN g ELSE @,
                         !.yellow_duration = IF y # None THEN y ELSE @,
                         !.red_duration = IF r # None THEN r ELSE @]]

(* ---------------------------------------------------------------------- *)
(* Incident field                                                          *)
(* ---------------------------------------------------------------------- *)
(* impact_radii, in the unit of the table (the comparison is made against  *)
(* the metres _calculate_distance returns), times 10000                    *)
impact_radius(type) ==
    CASE type = "accident" -> 20
      [] type = "construction" -> 30
      [] type = "closure" -> 50
      [] type = "slowdown" -> 10
      [] type = "event" -> 20
      [] OTHER -> 20

(* speed_reductions, in tenths *)
speed_reduction(type) ==
    CASE type = "accident" -> 3
      [] type = "construction" -> 5
      [] type = "closure" -> 0
      [] type = "slowdown" -> 7
      [] type = "event" -> 4
      [] OTHER -> 5

(* affected_speed of one incident, or None when the vehicle is outside its *)
(* radius.  distance is in centimetres, so distance * 100 is in the unit   *)
(* of impact_radius.                                                       *)
reduced_speed(target_speed, d, radius, reduction) ==
    IF d < radius
    THEN (target_speed * (10 * radius - reduction * (radius - d))) \div (10 * radius)
    ELSE None
affected_speed(vehicle, incident) ==
    reduced_speed(vehicle.target_speed,
                  calculate_distance(vehicle.position, incident.location) * 100,
                  impact_radius(incident.type), speed_reduction(incident.type))

(* _get_incident_effect: the minimum affected speed, or None *)
MinOrNone(speeds) ==
    IF speeds = {} THEN None ELSE CHOOSE m \in speeds : \A x \in speeds : m <= x
get_incident_effect(vehicle, incidents) ==
    MinOrNone({affected_speed(vehicle, incidents[i]) : i \in DOMAIN incidents}
                 \ {None})

(* ---------------------------------------------------------------------- *)
(* Vehicle interactions                                                    *)
(* ---------------------------------------------------------------------- *)
(* math.degrees(math.atan2(dy, dx)) in whole degrees: exact on the axes    *)
(* and diagonals, 45 * t + 15.66 * t * (1 - t) of the smaller ratio t      *)
(* elsewhere (error below 0.3 degrees).                                    *)
AtanRatio(t) == (45 * t + (1566 * t * (1000 - t)) \div 100000) \div 1000
AtanFirst(ax, ay) ==
    IF ax >= ay THEN AtanRatio(IF ax = 0 THEN 0 ELSE (ay * 1000) \div ax)
    ELSE 90 - AtanRatio((ax * 1000) \div ay)
AtanQuadrant(dy, dx, first) ==
    CASE dx >= 0 /\ dy >= 0 -> first
      [] dx < 0 /\ dy >= 0 -> 180 - first
      [] dx < 0 /\ dy < 0 -> first - 180
      [] OTHER -> -first
atan2_degrees(dy, dx) == AtanQuadrant(dy, dx, AtanFirst(Abs(dx), Abs(dy)))

(* projection of b - a onto the heading direction, scaled by 1000 *)
projection(a, b, heading) ==
    Clip(b.lng - a.lng) * HeadingSin(heading) + Clip(b.lat - a.lat) * HeadingCos(heading)

(* heading_diff < 45 or heading_diff > 315 *)
same_direction(heading_diff) == heading_diff < 45 \/ heading_diff > 315

(* The candidates of _find_vehicle_ahead: ahead, within 0.002 of the       *)
(* distance unit, within 45 degrees.                                       *)
is_ahead(vehicle, other) ==
    /\ other.id # vehicle.id
    /\ projection(vehicle.position, other.position, vehicle.heading) > 0
    /\ calculate_distance(vehicle.position, other.position) * 100 < 20
    /\ same_direction(
          Abs(atan2_degrees(other.position.lat - vehicle.position.lat,
                            other.position.lng - vehicle.position.lng)
              - vehicle.heading))

(* _find_vehicle_ahead: index of the closest candidate (the first of the   *)
(* closest, as the scan keeps the earlier on a tie), or None               *)
closest(cand, dist) ==
    IF cand = {} THEN None
    ELSE CHOOSE i \in cand :
           \A j \in cand : dist[i] < dist[j] \/ (dist[i] = dist[j] /\ i <= j)
find_vehicle_ahead(vehicle, vehicles) ==
    closest({i \in DOMAIN vehicles : is_ahead(vehicle, vehicles[i])},
            [i \in DOMAIN vehicles |->
                calculate_distance(vehicle.position, vehicles[i].position)])

(* _is_behind(a, b) *)
is_behind(a, b) == projection(b.position, a.position, b.heading) < 0

(* A follower that takes 0.9 x the leader's speed as its target_speed *)
slow_follower_matches(vehicles, f, l) ==
    [vehicles EXCEPT ![f].target_speed = (vehicles[l].current_speed * 9) \div 10]

(* One pair of _handle_vehicle_interactions, i < j *)
slow_follower(vehicles, f, l) ==
    [vehicles EXCEPT ![f].target_speed =
        Min(@, (vehicles[l].current_speed * 9) \div 10)]
interact_pair(vehicles, i, j, min_following_distance) ==
    IF /\ calculate_distance(vehicles[i].position, vehicles[j].position)
             < min_following_distance * 100
       /\ same_direction(Abs(vehicles[i].heading - vehicles[j].heading))
    THEN IF is_behind(vehicles[i], vehicles[j])
         THEN slow_follower(vehicles, i, j)
         ELSE slow_follower(vehicles, j, i)
    ELSE vehicles

RECURSIVE interact_from(_, _, _, _)
interact_from(vehicles, i, j, mfd) ==
    IF i > Len(vehicles) THEN vehicles
    ELSE IF j > Len(vehicles) THEN interact_from(vehicles, i + 1, i + 2, mfd)
    ELSE interact_from(interact_pair(vehicles, i, j, mfd), i, j + 1, mfd)

(* _handle_vehicle_interactions *)
handle_vehicle_interactions(vehicles, min_following_distance) ==
    interact_from(vehicles, 1, 2, min_following_distance)

(* ---------------------------------------------------------------------- *)
(* Vehicle update                                                          *)
(* ---------------------------------------------------------------------- *)
(* Division rounding toward zero, as the float result would be truncated   *)
SDiv(a, b) == IF a < 0 THEN -((-a) \div b) ELSE a \div b

(* The lights that control the vehicle's segment, in scan order            *)
controlling_lights(vehicle, intersection) ==
    {j \in DOMAIN intersection.traffic_lights :
        vehicle.current_segment_id
            \in intersection.traffic_lights[j].controlled_segment_ids}

(* A release that waits until the green phase has lasted a tick *)
can_proceed_settled(vehicle, intersections) ==
    \A i \in DOMAIN intersections :
        \A j \in controlling_lights(vehicle, intersections[i]) :
            /\ intersections[i].traffic_lights[j].current_phase = GREEN
            /\ intersections[i].traffic_lights[j].time_in_current_phase > 0

(* _can_proceed: the phase of the first controlling light decides *)
can_proceed(vehicle, intersections) ==
    LET owners == {i \in DOMAIN intersections :
                      controlling_lights(vehicle, intersections[i]) # {}}
    IN IF owners = {} THEN TRUE
       ELSE LET i == CHOOSE k \in owners : \A m \in owners : k <= m
                c == controlling_lights(vehicle, intersections[i])
                j == CHOOSE k \in c : \A m \in c : k <= m
            IN intersections[i].traffic_lights[j].current_phase = GREEN

(* stopping_distance of _should_stop_at_light, in centimetres:             *)
(* current_speed ** 2 / (2 * base_decel * 3.6)                             *)
stopping_distance(vehicle, cfg) ==
    LET base_decel == IF cfg.base_deceleration <= 0 THEN 40
                      ELSE cfg.base_deceleration
    IN IF vehicle.current_speed <= 0 THEN 0
       ELSE (vehicle.current_speed * vehicle.current_speed) \div (72 * base_decel)

(* A check that takes a vehicle with no segment to be controlled by every  *)
(* light                                                                   *)
should_stop_unassigned(vehicle, intersections, cfg) ==
    \E i \in DOMAIN intersections :
        /\ calculate_distance(vehicle.position, intersections[i].location)
              < stopping_distance(vehicle, cfg) + 1000
        /\ \E j \in DOMAIN intersections[i].traffic_lights :
              /\ \/ vehicle.current_segment_id = None
                 \/ j \in controlling_lights(vehicle, intersections[i])
              /\ intersections[i].traffic_lights[j].current_phase # GREEN

(* _should_stop_at_light *)
should_stop_at_light(vehicle, intersections, cfg) ==
    \E i \in DOMAIN intersections :
        /\ calculate_distance(vehicle.position, intersections[i].location)
              < stopping_distance(vehicle, cfg) + 1000
        /\ \E j \in controlling_lights(vehicle, intersections[i]) :
              intersections[i].traffic_lights[j].current_phase # GREEN

(* accel_modifiers, in tenths *)
accel_modifier(profile) ==
    CASE profile = AGGRESSIVE -> 13
      [] profile = NORMAL -> 10
      [] profile = CAUTIOUS -> 7
      [] profile = LEARNER -> 5
      [] OTHER -> 10

(* An attenuation that fades to nothing at 10 km/h *)
speed_factor_fading(current_speed) == Max(0, 1000 - current_speed)

(* speed_factor = max(0.1, 1 - current_speed / 120 * 0.3), in thousandths *)
speed_factor(current_speed) == Max(100, 1000 - current_speed \div 40)

(* accel * dt * 3.6 in centi-km/h: base (tenths of m/s^2) * modifier       *)
(* (tenths) * factor (thousandths) * dt (ms) * 360 / 10^8                  *)
accel_step(cfg, vehicle, dt) ==
    (((cfg.base_acceleration * accel_modifier(vehicle.driver_profile) * dt * 36)
          \div 1000) * speed_factor(vehicle.current_speed)) \div 10000

(* decel * dt * 3.6 in centi-km/h *)
decel_step(cfg, vehicle, dt) ==
    (cfg.base_deceleration * accel_modifier(vehicle.driver_profile) * dt * 36)
        \div 10000

(* Lines 417-435: the incident ceiling and the time-headway cap *)
incident_ceiling(target_speed, incident_effect) ==
    IF incident_effect # None /\ incident_effect # 0
    THEN Min(target_speed, incident_effect)
    ELSE target_speed
headway_cap(vehicle, vehicles, ahead, target_speed) ==
    IF ahead = None THEN target_speed
    ELSE IF calculate_distance(vehicle.position, vehicles[ahead].position) * 111000
              < (vehicle.current_speed * 5) \div 9
    THEN Min(target_speed, (vehicles[ahead].current_speed * 9) \div 10)
    ELSE target_speed
cap_target_speed(vehicle, vehicles, incidents) ==
    headway_cap(vehicle, vehicles, find_vehicle_ahead(vehicle, vehicles),
                incident_ceiling(vehicle.target_speed,
                                 get_incident_effect(vehicle, incidents)))

(* A vehicle that takes its target speed at once *)
approach_speed_at_once(vehicle, cfg, dt) == vehicle.target_speed

(* Lines 437-469: one step of speed toward target_speed *)
approach_speed(vehicle, cfg, dt) ==
    LET speed_diff == vehicle.target_speed - vehicle.current_speed
    IN IF speed_diff > 0
       THEN Min(vehicle.target_speed,
                vehicle.current_speed + accel_step(cfg, vehicle, dt))
       ELSE IF speed_diff < 0
       THEN Max(vehicle.target_speed,
                vehicle.current_speed - decel_step(cfg, vehicle, dt))
       ELSE vehicle.current_speed

(* Lines 477-508: position integration.  distance_km = speed * dt / 3600;  *)
(* one degree of latitude is 111 km.                                       *)
safe_cos(c) == IF Abs(c) < 1 THEN 1 ELSE c
displace(position, heading, a, cos_lat) ==
    Coordinates(
        Max(-90000000, Min(90000000,
            position.lat + SDiv(a * HeadingCos(heading), 399600))),
        Max(-180000000, Min(180000000,
            position.lng + SDiv(a * HeadingSin(heading) * 10, 3996 * cos_lat))))
move(vehicle, dt) ==
    IF vehicle.current_speed * dt <= 0 THEN vehicle.position
    ELSE displace(vehicle.position, vehicle.heading,
                  (vehicle.current_speed * dt) \div 100,
                  safe_cos(CosLat(vehicle.position.lat)))

(* Lines 437-469: the vehicle with its new speed *)
accelerate(vehicle, cfg, dt) ==
    [vehicle EXCEPT !.current_speed = approach_speed(vehicle, cfg, dt)]

(* A stop at a light that leaves the speed as it is *)
stop_keeps_speed(vehicle, intersections, cfg, dt) ==
    IF should_stop_at_light(vehicle, intersections, cfg)
    THEN [vehicle EXCEPT !.waiting_at_light = TRUE]
    ELSE [vehicle EXCEPT !.position = move(vehicle, dt)]

(* Lines 471-508: the vehicle stops at a light, or moves *)
stop_or_move(vehicle, intersections, cfg, dt) ==
    IF should_stop_at_light(vehicle, intersections, cfg)
    THEN [vehicle EXCEPT !.waiting_at_light = TRUE, !.current_speed = 0]
    ELSE [vehicle EXCEPT !.position = move(vehicle, dt)]

(* _update_vehicle: the vehicle afterwards *)
update_vehicle(vehicle, vehicles, intersections, incidents, cfg, dt) ==
    IF vehicle.waiting_at_light
    THEN [vehicle EXCEPT
            !.wait_time_seconds = @ + dt,
            !.waiting_at_light = ~can_proceed(vehicle, intersections)]
    ELSE stop_or_move(
            accelerate([vehicle EXCEPT !.target_speed =
                           cap_target_speed(vehicle, vehicles, incidents)],
                       cfg, dt),
            intersections, cfg, dt)

(* ---------------------------------------------------------------------- *)
(* Despawn and metrics                                                     *)
(* ---------------------------------------------------------------------- *)
(* _real_traffic_data is None, or <<snapshot>> *)
NoSnapshot == <<>>

(* margin = 0.005 degrees *)
in_bounds(position, bbox) ==
    /\ bbox.south - 5000 <= position.lat /\ position.lat <= bbox.north + 5000
    /\ bbox.west - 5000 <= position.lng /\ position.lng <= bbox.east + 5000

(* valid_vehicles of _remove_completed_vehicles *)
valid_vehicles(vehicles, bbox) ==
    SelectSeq(vehicles, LAMBDA v : in_bounds(v.position, bbox))

(* A despawn that does not count what it removes *)
remove_completed_uncounted(st, rtd) ==
    IF rtd # NoSnapshot
    THEN [st EXCEPT !.vehicles = valid_vehicles(@, rtd[1].bounding_box)]
    ELSE st
(* _remove_completed_vehicles: the state afterwards *)
remove_completed_vehicles(st, rtd) ==
    IF rtd # NoSnapshot
    THEN LET valid == valid_vehicles(st.vehicles, rtd[1].bounding_box)
             removed == Len(st.vehicles) - Len(valid)
         IN [st EXCEPT !.vehicles = valid,
                       !.vehicles_completed = @ + Max(0, removed)]
    ELSE st

RECURSIVE SumSpeed(_)
SumSpeed(vs) ==
    IF vs = <<>> THEN 0 ELSE Head(vs).current_speed + SumSpeed(Tail(vs))

RECURSIVE SumWait(_)
SumWait(vs) ==
    IF vs = <<>> THEN 0 ELSE Head(vs).wait_time_seconds + SumWait(Tail(vs))

(* Metrics that reset average_wait_time when no vehicle waits nearby *)
intersection_metrics_reset(intersection, vehicles) ==
    LET waiting_vehicles ==
            SelectSeq(vehicles, LAMBDA v :
                v.waiting_at_light
                /\ calculate_distance(v.position, intersection.location) < 5000)
    IN [intersection EXCEPT !.average_wait_time =
           IF waiting_vehicles # <<>>
           THEN SumWait(waiting_vehicles) \div Len(waiting_vehicles) ELSE 0]

(* average_wait_time of one intersection *)
intersection_metrics(intersection, vehicles) ==
    LET waiting_vehicles ==
            SelectSeq(vehicles, LAMBDA v :
                v.waiting_at_light
                /\ calculate_distance(v.position, intersection.location) < 5000)
    IN IF waiting_vehicles # <<>>
       THEN [intersection EXCEPT !.average_wait_time =
                SumWait(waiting_vehicles) \div Len(waiting_vehicles)]
       ELSE intersection

(* _update_metrics: the state afterwards *)
update_metrics(st) ==
    [st EXCEPT
        !.total_vehicles = Len(st.vehicles),
        !.average_speed = IF st.vehicles # <<>>
                          THEN SumSpeed(st.vehicles) \div Len(st.vehicles) ELSE 0,
        !.total_wait_time = IF st.vehicles # <<>> THEN SumWait(st.vehicles) ELSE 0,
        !.intersections = [i \in DOMAIN st.intersections |->
                              intersection_metrics(st.intersections[i], st.vehicles)]]

(* ---------------------------------------------------------------------- *)
(* Emissions estimate and dashboard metrics                                *)
(* ---------------------------------------------------------------------- *)
(* co2 and fuel in grams and millilitres, nox in milligrams *)
EmissionsEstimate(co2, nox, fuel, avg_co2, avg_fuel) ==
    [co2_kg_per_hour |-> co2, nox_grams_per_hour |-> nox,
     fuel_liters_per_hour |-> fuel,
     avg_co2_per_vehicle |-> avg_co2, avg_fuel_per_vehicle |-> avg_fuel]

(* 1 + abs(avg_speed - 60) / 60, in thousandths *)
emission_speed_factor(avg_speed) == 1000 + (Abs(avg_speed - 6000) * 1000) \div 6000

(* base rate (thousandths per km) x speed_factor x km_per_hour, for one    *)
(* vehicle and for all of them                                             *)
emission_per_vehicle(rate, avg_speed) ==
    (((rate * emission_speed_factor(avg_speed)) \div 1000) * avg_speed) \div 100
emission_total(rate, avg_speed, total_vehicles) ==
    (((rate * emission_speed_factor(avg_speed)) \div 1000) * avg_speed
        * total_vehicles) \div 100

(* The estimate for a non-empty vehicle set at average speed avg_speed *)
emissions_at(avg_speed, n) ==
    EmissionsEstimate(emission_total(120, avg_speed, n),
                      emission_total(500, avg_speed, n),
                      emission_total(80, avg_speed, n),
                      emission_total(120, avg_speed, n) \div n,
                      emission_total(80, avg_speed, n) \div n)

(* An estimate that computes the per-vehicle averages without the guard    *)
(* for an empty vehicle set                                                *)
calculate_emissions_unguarded(st) ==
    EmissionsEstimate(emission_total(120, 3000, Len(st.vehicles)),
                      emission_total(500, 3000, Len(st.vehicles)),
                      emission_total(80, 3000, Len(st.vehicles)),
                      emission_per_vehicle(120, 3000),
                      emission_per_vehicle(80, 3000))

(* An estimate that uses state.average_speed as it is, 0 included *)
calculate_emissions_as_is(st) ==
    IF Len(st.vehicles) = 0
    THEN EmissionsEstimate(0, 0, 0, 0, 0)
    ELSE emissions_at(st.average_speed, Len(st.vehicles))

(* calculate_emissions: avg_speed is state.average_speed or 30 *)
calculate_emissions(st) ==
    IF Len(st.vehicles) = 0
    THEN EmissionsEstimate(0, 0, 0, 0, 0)
    ELSE emissions_at(IF st.average_speed = 0 THEN 3000 ELSE st.average_speed,
                      Len(st.vehicles))

(* The TrafficMetrics of GET /dashboard/metrics, without its timestamp,    *)
(* congestion index and wait-time fields; vehicles_per_minute in           *)
(* thousandths                                                             *)
TrafficMetrics(st, cfg) ==
    [average_speed |-> st.average_speed,
     vehicles_per_minute |->
        (Len(st.vehicles) * 60000000)
            \div Max(60000, st.tick * cfg.tick_interval_ms),
     total_active_vehicles |-> st.total_vehicles,
     active_incidents |-> Len(st.active_incidents),
     emissions |-> calculate_emissions(st)]

(* ---------------------------------------------------------------------- *)
(* Inputs the model draws, by environment                                  *)
(* ---------------------------------------------------------------------- *)
NormalOnly == [p \in DriverProfile |-> IF p = NORMAL THEN 100 ELSE 0]
TwoProfiles == [p \in DriverProfile |-> IF p \in {AGGRESSIVE, LEARNER} THEN 50 ELSE 0]
NoProfile == [p \in DriverProfile |-> 0]

SimulationConfig(interval, maxv, rate, dist) ==
    [tick_interval_ms |-> interval, max_vehicles |-> maxv, spawn_rate |-> rate,
     base_acceleration |-> 20, base_deceleration |-> 40,
     min_following_distance |-> 5, profile_distribution |-> dist]

Fast == SimulationConfig(1000, 2, 1000, NormalOnly)
Slow == SimulationConfig(100, 1, 500, TwoProfiles)
BadInterval == SimulationConfig(0, 1, 1000, NormalOnly)
Unweighted == SimulationConfig(1000, 2, 1000, NoProfile)
OneVehicle == SimulationConfig(1000, 1, 1000, NormalOnly)
(* The scenario of the spawn test: spawn_rate = 1.0, max_vehicles = 5,     *)
(* dt = 0.1 s                                                              *)
Saturating == SimulationConfig(100, 5, 1000, NormalOnly)

(* dt = 0.1 s, and no room for a second vehicle *)
Cruise == SimulationConfig(100, 1, 1000, NormalOnly)

(* The configuration the engine is constructed with *)
InitConfigs ==
    CASE env = "lights" -> {OneVehicle}
      [] env = "road" -> {Cruise, OneVehicle}
      [] env \in {"scenario", "queue"} -> {Cruise}
      [] env = "release" -> {OneVehicle}
      [] env = "traffic" -> {Fast, Slow}
      [] env = "saturation" -> {Saturating}
      [] env = "lifecycle" -> {Fast, BadInterval}
      [] env = "faults" -> {Fast, Unweighted}
      [] env = "incidents" -> {OneVehicle}
      [] OTHER -> {Fast}

(* Configurations given to PUT /simulation/config *)
ConfigDraws == {Slow}

(* random.random(), in thousandths; the saturation scenario forces every   *)
(* trial to succeed                                                        *)
RandomDraws == IF env \in {"saturation", "lights"} THEN {0} ELSE {0, 999}
(* random.uniform(0, 360) of _create_vehicle *)
HeadingDraws == IF env = "traffic" THEN {0, 90} ELSE {0}
(* random.choices over the vehicle types *)
VehicleTypeDraws == {"car"}
(* random.choice over the edges of the fallback area *)
EdgeDraws == IF env = "traffic" THEN {"north", "west"} ELSE {"north"}
(* random.uniform(-offset, offset) *)
JitterDraws == {0}
(* random.uniform(-0.1, 0.1) of _update_segment_speed_limit, thousandths *)
VarianceDraws == {0}

Center == Coordinates(40712800, -74006000)

BoundingBox(n, s, e, w) == [north |-> n, south |-> s, east |-> e, west |-> w]
RoadSegment(id, coords, speed) ==
    [id |-> id, coordinates |-> coords, current_speed |-> speed]
TrafficFlowData(segs, bbox, ratio) ==
    [segments |-> segs, bounding_box |-> bbox, average_speed_ratio |-> ratio]

(* The area around Center with one segment that starts 10 micro-degrees    *)
(* inside its northern despawn line                                        *)
Nearby ==
    TrafficFlowData(<<RoadSegment(1, <<Coordinates(40727790, -74006000)>>, 3000)>>,
                    BoundingBox(40722800, 40702800, -73996000, -74016000), 1000)
(* A distant area whose segments carry no geometry *)
Distant ==
    TrafficFlowData(<<RoadSegment(2, <<>>, 2000)>>,
                    BoundingBox(51520000, 51500000, -100000, -120000), 0)

(* The place 20 m south of Center *)
Upstream == Coordinates(Center.lat - 180, Center.lng)
(* The place 5 m south of Center *)
Doorstep == Coordinates(Center.lat - 45, Center.lng)
(* The area around Center with segment 7, which starts at Doorstep,        *)
(* flowing at 60 km/h, and with segment 7 at a standstill                  *)
Flowing ==
    TrafficFlowData(<<RoadSegment(7, <<Doorstep>>, 6000)>>,
                    BoundingBox(40722800, 40702800, -73996000, -74016000), 1000)
Jammed ==
    TrafficFlowData(<<RoadSegment(7, <<Doorstep>>, 0)>>,
                    BoundingBox(40722800, 40702800, -73996000, -74016000), 0)

(* Traffic snapshots handed to update_real_traffic_data *)
SnapshotDraws ==
    CASE env = "traffic" -> {Nearby, Distant}
      [] env = "road" -> {Flowing, Jammed}
      [] OTHER -> {Nearby}

(* Durations given to POST /simulation/intersection: <<green, yellow, red>> *)
DurationDraws == IF env = "lights" THEN {<<1, 1, 1>>, <<2, 1, 2>>} ELSE {<<1, 1, 1>>}
(* Durations given to adjust_traffic_light_timing *)
TimingDraws ==
    IF env = "lights" THEN {<<None, None, None>>, <<0, None, None>>, <<None, 2, 1>>}
    ELSE {<<None, 2, 1>>}
(* The fallback spawn position of the north edge with no jitter *)
NorthEdge == Coordinates(Center.lat + 10000, Center.lng)

(* Incidents given to POST /simulation/incident and add_incident: the      *)
(* type ("parade" is in neither table of _get_incident_effect), the        *)
(* location and the end_time                                               *)
IncidentDraws ==
    CASE env = "incidents" -> {"closure", "accident", "parade"}
      [] env = "road" -> {"accident"}
      [] OTHER -> {"closure"}
LocationDraws ==
    CASE env = "incidents" -> {Center, NorthEdge}
      [] env = "road" -> {Upstream}
      [] OTHER -> {Center}
EndTimeDraws == IF env = "incidents" THEN {None, 0} ELSE {None}
(* Callbacks registered as listeners: one that returns, one that raises,   *)
(* one that calls engine.stop()                                            *)
ListenerDraws ==
    CASE env = "lifecycle" -> {"ok", "raises", "stops"}
      [] env = "faults" -> {"raises"}
      [] OTHER -> {"ok"}

(* Whether the environment makes phases of a tick raise *)
FaultsEnabled == env = "faults"

(* The start() coroutines that can exist at once *)
Tasks == IF env = "lifecycle" THEN {1, 2} ELSE {1}

(* The ticks and the identities a behaviour may use: the light cycle needs  *)
(* three phase changes, the saturation scenario max_vehicles = 5 spawns     *)
TickBound ==
    CASE env = "lights" -> MaxTick + 2
      [] env = "scenario" -> ScenarioTicks
      [] env = "queue" -> QueueTicks
      [] env = "release" -> ReleaseTicks
      [] env = "saturation" -> MaxTick + 5
      [] OTHER -> MaxTick
IdBound ==
    CASE env = "incidents" -> MaxUuid + 1
      [] env = "faults" -> MaxUuid + 2
      [] env = "lights" -> MaxUuid + 3
      [] env = "saturation" -> MaxUuid + 5
      [] OTHER -> MaxUuid

(* What the tick in progress has done so far: the tick counter and the     *)
(* timestamp it found, the phases it ran, the phases that raised, the      *)
(* copy of the vehicle list, the vehicles whose update was called, the     *)
(* vehicles evicted, the listeners called; `escaped` tells that the        *)
(* previous tick of the loop raised                                        *)
NoHist ==
    [tick0 |-> None, ts0 |-> None, ran |-> <<>>, raised |-> {},
     at_vehicles |-> <<>>, updated |-> <<>>, evicted |-> {},
     notified |-> <<>>, escaped |-> FALSE]

IdleTask == [pc |-> "none", dt |-> 0, todo |-> <<>>]

(* Vehicles, an intersection and a light put into engine.state by the      *)
(* caller before the engine is started. The engine itself never gives a    *)
(* vehicle a current_segment_id nor a light its controlled_segment_ids.    *)
(* A NORMAL vehicle at rest at the north edge, target speed 50 km/h *)
Starting == SimulatedVehicle(101, "car", NORMAL, NorthEdge, 0, 5000)
(* An AGGRESSIVE vehicle at 50 km/h whose target speed is 30 km/h *)
Braking ==
    [SimulatedVehicle(102, "car", AGGRESSIVE, NorthEdge, 90, 3000)
        EXCEPT !.current_speed = 5000]
(* A NORMAL vehicle on segment 7 at 50 km/h, 20 m south of the crossing *)
Approaching ==
    [SimulatedVehicle(103, "car", NORMAL,
                      Coordinates(Center.lat - 180, Center.lng), 0, 5000)
        EXCEPT !.current_speed = 5000, !.current_segment_id = 7]
(* An intersection at Center whose light (green 30 s, yellow 5 s, red      *)
(* 30 s) controls segment 7                                                *)
Crossing(phase) ==
    Intersection(201, Center,
        <<[TrafficLight(202, Center, 30, 5, 30)
              EXCEPT !.current_phase = phase, !.controlled_segment_ids = {7}]>>)

(* Two vehicles heading north, Ahead 3 m in front of Trailing, and a       *)
(* vehicle heading 30 degrees, 3.4 m west and 1.1 m north of Trailing      *)
Trailing ==
    [SimulatedVehicle(106, "car", NORMAL,
                      Coordinates(Center.lat - 900, Center.lng), 0, 5000)
        EXCEPT !.current_speed = 3000]
Ahead ==
    [SimulatedVehicle(107, "car", NORMAL,
                      Coordinates(Center.lat - 873, Center.lng), 0, 5000)
        EXCEPT !.current_speed = 2000]
Skewed ==
    [SimulatedVehicle(108, "car", NORMAL,
                      Coordinates(Center.lat - 890, Center.lng - 40), 30, 5000)
        EXCEPT !.current_speed = 4000]
(* A NORMAL vehicle at 100 km/h heading north, 50 m south of Center *)
Chasing ==
    [SimulatedVehicle(104, "car", NORMAL,
                      Coordinates(Center.lat - 450, Center.lng), 0, 10000)
        EXCEPT !.current_speed = 10000]
(* A vehicle of segment 7 waiting `south` microdegrees south of Center *)
Waiting(i, south) ==
    [SimulatedVehicle(110 + i, "car", NORMAL,
                      Coordinates(Center.lat - south, Center.lng), 0, 5000)
        EXCEPT !.current_segment_id = 7, !.waiting_at_light = TRUE]
(* `near` vehicles waiting 13 m to 43 m from Center, 3 m apart, and `far`  *)
(* vehicles waiting further than 60 m from it                              *)
Queue(near, far) ==
    [i \in 1..(near + far) |->
        IF i <= near THEN Waiting(i, 90 + 27 * i) ELSE Waiting(i, 540 + 27 * i)]
QueueDraws == {<<1, 0>>, <<5, 0>>, <<5, 1>>, <<6, 0>>, <<8, 0>>, <<10, 0>>, <<11, 0>>}
(* An intersection at Center with a GREEN light for segment 8 (green g s,  *)
(* yellow 1 s, red 1 s) and a RED light for segment 7 (30 s, 5 s, 30 s)    *)
Junction(g) ==
    Intersection(201, Center,
        <<[TrafficLight(202, Center, g, 1, 1)
              EXCEPT !.current_phase = GREEN, !.controlled_segment_ids = {8}],
          [TrafficLight(203, Center, 30, 5, 30)
              EXCEPT !.controlled_segment_ids = {7}]>>)

(* An intersection at Center whose light for segment 7 is green 1 s,       *)
(* yellow 1 s and red r s                                                  *)
Gate(phase, r) ==
    Intersection(201, Center,
        <<[TrafficLight(202, Center, 1, 1, r)
              EXCEPT !.current_phase = phase, !.controlled_segment_ids = {7}]>>)

(* engine.state when the engine is started *)
InitStates ==
    CASE env = "road" ->
            {[SimulationState(0) EXCEPT !.vehicles = vs, !.intersections = xs] :
                vs \in {<<>>, <<Starting>>, <<Braking>>, <<Approaching>>,
                        <<Approaching, Starting>>, <<Waiting(1, 180)>>,
                        <<Chasing, Waiting(1, 0)>>, <<Trailing, Ahead>>,
                        <<Trailing, Skewed>>},
                xs \in {<<>>, <<Crossing(RED)>>, <<Crossing(YELLOW)>>,
                        <<Crossing(GREEN)>>}}
      [] env = "scenario" ->
            {[SimulationState(0) EXCEPT !.vehicles = <<Starting>>,
                                        !.intersections = <<Crossing(RED)>>]}
      [] env = "release" ->
            {[SimulationState(0) EXCEPT !.vehicles = vs,
                                        !.intersections = <<Gate(phase, r)>>] :
                vs \in {<<Waiting(1, 180)>>, <<Waiting(1, 180), Waiting(2, 207)>>,
                        <<Waiting(1, 180),
                          [Waiting(2, 600) EXCEPT !.wait_time_seconds = 10000]>>},
                phase \in {RED, YELLOW, GREEN}, r \in {1, 2}}
      [] env = "queue" ->
            {[SimulationState(0) EXCEPT !.vehicles = Queue(q[1], q[2]),
                                        !.intersections = <<Junction(g)>>] :
                q \in QueueDraws, g \in {1, 2}}
      [] OTHER -> {SimulationState(0)}

(* ---------------------------------------------------------------------- *)
(* Response cache (services/cache.py)                                      *)
(* ---------------------------------------------------------------------- *)
(* The keys, values and time-to-live values the callers of the cache use,  *)
(* and the seconds that pass between two operations                        *)
KeyDraws == {"key1", "key2"}
ValueDraws == {10, 20}
TtlDraws == {1, 3}
AdvanceDraws == IF env = "decorator" THEN {150} ELSE {1}
NowBound == IF env = "decorator" THEN 150 * MaxNow ELSE MaxNow

(* ResponseCache.__init__ *)
ResponseCache == [cache |-> <<>>, hits |-> 0, misses |-> 0]

(* get(), line 51: the entry is older than the time-to-live *)
expired(cached_time, ttl_seconds, t) == t - cached_time > ttl_seconds

(* get(): a key that is absent or expired is a miss *)
is_miss(c, key, ttl_seconds, t) ==
    \/ key \notin DOMAIN c.cache
    \/ expired(c.cache[key][2], ttl_seconds, t)

(* get(): the value it returns *)
get_value(c, key, ttl_seconds, t) ==
    IF is_miss(c, key, ttl_seconds, t) THEN None ELSE c.cache[key][1]

(* A lookup that leaves an expired entry in place *)
get_keeps_expired(c, key, ttl_seconds, t) ==
    IF is_miss(c, key, ttl_seconds, t)
    THEN [c EXCEPT !.misses = @ + 1]
    ELSE [c EXCEPT !.hits = @ + 1]

(* get(): the cache afterwards *)
get(c, key, ttl_seconds, t) ==
    IF key \notin DOMAIN c.cache
    THEN [c EXCEPT !.misses = @ + 1]
    ELSE IF expired(c.cache[key][2], ttl_seconds, t)
         THEN [c EXCEPT !.cache = [k \in DOMAIN c.cache \ {key} |-> c.cache[k]],
                        !.misses = @ + 1]
         ELSE [c EXCEPT !.hits = @ + 1]

(* set() *)
set(c, key, value, t) ==
    [c EXCEPT !.cache = [k \in DOMAIN c.cache \cup {key} |->
                            IF k = key THEN <<value, t>> ELSE c.cache[k]]]

(* clear() *)
clear(c) == [c EXCEPT !.cache = <<>>]

(* cache_response: the arguments of the calls, the results of the wrapped  *)
(* functions, the callers, the decorator's parameters                      *)
ArgDraws == {5, 10}
ResultDraws == {None, 10, 20}
Callers == {1, 2}
ttl_minutes == 5
key_prefix == "traffic_flow"
func_name == "test_func"

(* wrapper(), lines 120-130: the key of a call. The JSON text of the       *)
(* function's name, str(args) and the keyword arguments is hashed; the     *)
(* model keeps the hashed text, taking the digests of different texts to   *)
(* differ                                                                  *)
cache_key(args) ==
    <<key_prefix, func_name, "(" \o ToString(args) \o ",)", "{}">>

(* What the callers did: per key the last set(), and whether since then a  *)
(* clear() removed the entry or a get() found it expired and dropped it;   *)
(* the wrapped calls begun and the argument of the last;    *)
(* per argument the result and the time of the last call that completed    *)
(* with no clear_cache() since, and those of the call that completed       *)
(* before it                                                               *)
NoCacheHist ==
    [last_set |-> [k \in KeyDraws |-> <<>>], cleared |-> {}, dropped |-> {},
     begun |-> 0, args |-> None, completed |-> [x \in ArgDraws |-> <<>>],
     previous |-> [x \in ArgDraws |-> <<>>]]

NoReturn == [op |-> "none", value |-> None]

WrappedDraws ==
    IF env = "decorator" THEN [ArgDraws -> ResultDraws]
    ELSE {[x \in ArgDraws |-> 2 * x]}

InitCache ==
    /\ response_cache = ResponseCache
    /\ time_now = 0
    /\ returned = NoReturn
    /\ wrapped \in WrappedDraws
    /\ call_count = 0
    /\ pending = [c \in Callers |-> <<>>]
    /\ cache_hist = NoCacheHist

InitEngine ==
    /\ config \in InitConfigs
    /\ clock = 0
    /\ state \in InitStates
    /\ running = FALSE
    /\ real_traffic_data = NoSnapshot
    /\ listeners = <<>>
    /\ task = [t \in Tasks |-> IdleTask]
    /\ cur = 0
    /\ uuid = 0
    /\ hist = NoHist
    /\ response = <<>>
    /\ InitCache

(* ---------------------------------------------------------------------- *)
(* Vehicle spawning                                                        *)
(* ---------------------------------------------------------------------- *)
(* speed_modifiers of _create_vehicle applied to base_speed = 50 km/h *)
spawn_target_speed(profile) ==
    CASE profile = AGGRESSIVE -> 6000
      [] profile = NORMAL -> 5000
      [] profile = CAUTIOUS -> 4250
      [] profile = LEARNER -> 3500

(* The profiles random.choices can return; it raises when the weights sum  *)
(* to zero.                                                                *)
selectable_profiles(cfg) ==
    {p \in DriverProfile : cfg.profile_distribution[p] > 0}

(* _get_spawn_position: the positions it can return *)
spawn_positions(rtd) ==
    LET valid_segments ==
            IF rtd = NoSnapshot THEN {}
            ELSE {sg \in Range(rtd[1].segments) : sg.coordinates # <<>>}
        offset == 10000
    IN IF valid_segments # {}
       THEN {sg.coordinates[1] : sg \in valid_segments}
       ELSE {CASE e = "north" -> Coordinates(Center.lat + offset, Center.lng + j)
               [] e = "south" -> Coordinates(Center.lat - offset, Center.lng + j)
               [] e = "east" -> Coordinates(Center.lat + j, Center.lng + offset)
               [] OTHER -> Coordinates(Center.lat + j, Center.lng - offset)
             : e \in EdgeDraws, j \in JitterDraws}

(* The vehicles _create_vehicle can return for identity id *)
create_vehicle(id, cfg, rtd) ==
    {SimulatedVehicle(id, ty, p, pos, h, spawn_target_speed(p)) :
        ty \in VehicleTypeDraws, p \in selectable_profiles(cfg),
        pos \in spawn_positions(rtd), h \in HeadingDraws}

(* The Bernoulli trial of _spawn_vehicles: random.random() < spawn_rate * dt *)
spawn_trial(r, cfg, dt) == r * 1000 < cfg.spawn_rate * dt

(* A guard that lets the count pass max_vehicles by one *)
at_capacity_exceeded(vehicles, cfg) == Len(vehicles) > cfg.max_vehicles
(* The guard of _spawn_vehicles *)
at_capacity(vehicles, cfg) == Len(vehicles) >= cfg.max_vehicles

(* _spawn_vehicles: the outcomes [vehicles, raised] for random draw r and  *)
(* fresh identity id                                                       *)
spawn_vehicles(vehicles, cfg, rtd, dt, r, id) ==
    IF at_capacity(vehicles, cfg) \/ ~spawn_trial(r, cfg, dt)
    THEN {[vehicles |-> vehicles, raised |-> FALSE]}
    ELSE IF selectable_profiles(cfg) = {}
    THEN {[vehicles |-> vehicles, raised |-> TRUE]}
    ELSE {[vehicles |-> Append(vehicles, v), raised |-> FALSE] :
             v \in create_vehicle(id, cfg, rtd)}

(* A tick counter that advances by two *)
begin_tick_twice(st, now) == [st EXCEPT !.tick = @ + 2, !.timestamp = now]
(* tick(), lines 261-262 *)
begin_tick(st, now) == [st EXCEPT !.tick = @ + 1, !.timestamp = now]

(* tick(), lines 263-268: dt in milliseconds *)
delta_time(cfg) == IF cfg.tick_interval_ms <= 0 THEN 100 ELSE cfg.tick_interval_ms

(* tick(), lines 288-292: the vehicle whose update raised is removed *)
evict(vehicles, id) == SelectSeq(vehicles, LAMBDA v : v.id # id)

(* A vehicle loop that ends at the first update that raises *)
rest_abandoned(todo, raised) == IF raised THEN <<>> ELSE Tail(todo)
(* tick(), line 285: the vehicles still to update after one was handled,   *)
(* whether or not its update raised                                        *)
rest_to_update(todo, raised) == Tail(todo)

(* _notify_listeners: the listeners called, in order; a listener that      *)
(* raises ends the loop                                                    *)
RECURSIVE notify_listeners(_)
notify_listeners(ls) ==
    IF ls = <<>> THEN <<>>
    ELSE IF Head(ls) = "raises" THEN <<Head(ls)>>
    ELSE <<Head(ls)>> \o notify_listeners(Tail(ls))

(* update_real_traffic_data, line 179: spawn_rate = 0.3 + (1 - ratio) * 0.7 *)
retarget_spawn_rate(ratio) == 300 + ((1000 - ratio) * 7) \div 10

(* _update_segment_speed_limit for every segment of the snapshot *)
update_segment_speed_limits(vehicles, segments, variance) ==
    [i \in DOMAIN vehicles |->
        LET hits == {k \in DOMAIN segments :
                        segments[k].id = vehicles[i].current_segment_id}
        IN IF hits = {} THEN vehicles[i]
           ELSE LET k == CHOOSE m \in hits : \A n \in hits : n <= m
                IN [vehicles[i] EXCEPT !.target_speed =
                       (segments[k].current_speed * (1000 + variance)) \div 1000]]

(* A removal that clears the whole list *)
remove_incident_all(incidents, incident_id) == <<>>

(* remove_incident, lines 198-202 *)
remove_incident(incidents, incident_id) ==
    SelectSeq(incidents, LAMBDA i : i.id # incident_id)

TrafficIncident(id, type, loc, end) ==
    [id |-> id, type |-> type, location |-> loc, end_time |-> end]


(* ---------------------------------------------------------------------- *)
(* The event loop and the tick loop of start()                             *)
(* ---------------------------------------------------------------------- *)
(* A tick that awaits before its metrics phase *)
Suspends_before_metrics(pc) == pc \in {"sleep", "metrics"}
(* The awaits of start() and tick() at which the coroutine is suspended:   *)
(* asyncio.sleep of the inter-tick wait.  `await self.tick()` runs tick()  *)
(* inline, and tick() awaits nothing.                                      *)
Suspends(pc) == pc = "sleep"

(* The event loop runs coroutine t: t holds the loop, or the loop is idle   *)
(* and t waits at a suspension point                                       *)
Scheduled(t) == cur = t \/ (cur = 0 /\ Suspends(task[t].pc))

(* The coroutine gives the event loop back when it suspends or ends *)
Releases(pc) == Suspends(pc) \/ pc \in {"done", "failed"}

(* A tick whose metrics phase is not guarded *)
Swallowed_but_metrics(phase) ==
    phase \in {"spawn", "lights", "vehicle", "interactions", "despawn", "notify"}
(* The phases of tick() whose try/except logs the exception and goes on *)
Swallowed(phase) ==
    phase \in {"spawn", "lights", "vehicle", "interactions", "despawn",
               "metrics", "notify"}

(* A tick that aggregates the metrics before it despawns *)
phase_after_metrics_first(phase) ==
    CASE phase = "tick" -> "spawn"
      [] phase = "spawn" -> "lights"
      [] phase = "lights" -> "vehicles"
      [] phase = "vehicles" -> "interactions"
      [] phase = "interactions" -> "metrics"
      [] phase = "metrics" -> "despawn"
      [] phase = "despawn" -> "notify"
      [] phase = "notify" -> "returned"
(* The order of the statements of tick(): what follows each phase *)
(* A tick that resolves the close pairs before it updates the vehicles *)
phase_after_pairs_first(phase) ==
    CASE phase = "tick" -> "spawn"
      [] phase = "spawn" -> "lights"
      [] phase = "lights" -> "interactions"
      [] phase = "interactions" -> "vehicles"
      [] phase = "vehicles" -> "despawn"
      [] phase = "despawn" -> "metrics"
      [] phase = "metrics" -> "notify"
      [] phase = "notify" -> "returned"

phase_after(phase) ==
    CASE phase = "tick" -> "spawn"
      [] phase = "spawn" -> "lights"
      [] phase = "lights" -> "vehicles"
      [] phase = "vehicles" -> "interactions"
      [] phase = "interactions" -> "despawn"
      [] phase = "despawn" -> "metrics"
      [] phase = "metrics" -> "notify"
      [] phase = "notify" -> "returned"

(* Where tick() continues after `phase`, which raised iff `raised` *)
after_phase(phase, raised) ==
    IF raised /\ ~Swallowed(phase) THEN "raised" ELSE phase_after(phase)

(* A loop that ends when tick() raises *)
loop_ends_on_error(outcome, isrunning) ==
    IF outcome = "raised" THEN "done" ELSE IF isrunning THEN "sleep" ELSE "loop"
(* start(), lines 105-120: after tick() returned or raised (`outcome`),    *)
(* the loop sleeps if the engine is still running and tests the flag again *)
(* otherwise                                                               *)
loop_after_tick(outcome, isrunning) == IF isrunning THEN "sleep" ELSE "loop"

(* A stop() that flips the flag *)
stop_toggles(isrunning) == ~isrunning
(* stop(), line 132: the value it gives _running *)
stop(isrunning) == FALSE

(* The exceptions the environment injects into a phase *)
Faults == IF FaultsEnabled THEN BOOLEAN ELSE {FALSE}

Ids(vehicles) == [i \in DOMAIN vehicles |-> vehicles[i].id]
IndexOf(vehicles, id) ==
    IF \E i \in DOMAIN vehicles : vehicles[i].id = id
    THEN CHOOSE i \in DOMAIN vehicles : vehicles[i].id = id
    ELSE None

Step(t, next) ==
    /\ task' = [task EXCEPT ![t] = next]
    /\ cur' = IF Releases(next.pc) THEN 0 ELSE t
Goto(t, pc) == Step(t, [task[t] EXCEPT !.pc = pc])
Ran(phase, raised) ==
    [hist EXCEPT !.ran = Append(@, phase),
                 !.raised = IF raised THEN @ \cup {phase} ELSE @]

(* POST /simulation/start: create_task(engine.start()) unless _running *)
StartSimulation ==
    /\ cur = 0
    /\ ~running
    /\ \E t \in Tasks :
          /\ task[t].pc \in {"none", "done", "failed"}
          /\ \A u \in Tasks : u < t => task[u].pc \notin {"none", "done", "failed"}
          /\ task' = [task EXCEPT ![t] = [IdleTask EXCEPT !.pc = "created"]]
    /\ UNCHANGED <<cacheVars, env, response, config, state, running, real_traffic_data, listeners, cur,
                   uuid, clock, hist>>

(* A start() that validates nothing *)
start_rejects_nothing(cfg) == FALSE

(* start(), lines 90-92: the configuration start() refuses with ValueError *)
start_rejects(cfg) == cfg.tick_interval_ms <= 0

(* start(), lines 90-95: the first run of the coroutine *)
StartRun(t) ==
    /\ cur = 0
    /\ task[t].pc = "created"
    /\ IF start_rejects(config)
       THEN /\ Goto(t, "failed")
            /\ UNCHANGED running
       ELSE /\ running' = TRUE
            /\ Goto(t, "loop")
    /\ UNCHANGED <<cacheVars, env, response, config, state, real_traffic_data, listeners, uuid, clock, hist>>

(* start(), line 98 and lines 121-123: the while test and the exit *)
LoopCheck(t) ==
    /\ Scheduled(t)
    /\ task[t].pc = "loop"
    /\ IF running
       THEN /\ Goto(t, "tick")
            /\ UNCHANGED running
       ELSE /\ Goto(t, "done")
            /\ running' = FALSE
    /\ UNCHANGED <<cacheVars, env, response, config, state, real_traffic_data, listeners, uuid, clock, hist>>

(* start(), lines 105-120: after tick() returned or raised *)
LoopFinally(t) ==
    /\ Scheduled(t)
    /\ task[t].pc \in {"returned", "raised"}
    /\ Goto(t, loop_after_tick(task[t].pc, running))
    /\ hist' = [NoHist EXCEPT !.escaped = task[t].pc = "raised"]
    /\ UNCHANGED <<cacheVars, env, response, config, state, running, real_traffic_data, listeners, uuid, clock>>

(* asyncio.sleep returns: the event loop resumes the coroutine *)
Wake(t) ==
    /\ Scheduled(t)
    /\ task[t].pc = "sleep"
    /\ Goto(t, "loop")
    /\ clock' = Min(clock + 1, MaxClock)
    /\ UNCHANGED <<cacheVars, env, response, config, state, running, real_traffic_data, listeners, uuid, hist>>

(* The task is cancelled while it sleeps: lines 115-116 and 121-123 *)
Cancel(t) ==
    /\ cur = 0
    /\ task[t].pc = "sleep"
    /\ Goto(t, "done")
    /\ running' = FALSE
    /\ UNCHANGED <<cacheVars, env, response, config, state, real_traffic_data, listeners, uuid, clock, hist>>

(* ---------------------------------------------------------------------- *)
(* tick()                                                                  *)
(* ---------------------------------------------------------------------- *)
(* Lines 261-268.  An exception here is not caught inside tick(). *)
TickBegin(t) ==
    /\ Scheduled(t)
    /\ task[t].pc = "tick"
    /\ state.tick < TickBound
    /\ at_capacity(state.vehicles, config) \/ uuid < IdBound
    /\ \E fault \in Faults :
          /\ state' = begin_tick(state, clock)
          /\ Step(t, [task[t] EXCEPT !.pc = after_phase("tick", fault),
                                     !.dt = delta_time(config)])
          /\ hist' = [NoHist EXCEPT !.tick0 = state.tick,
                                    !.ts0 = state.timestamp,
                                    !.escaped = hist.escaped,
                                    !.raised = IF fault THEN {"tick"} ELSE {}]
    /\ UNCHANGED <<cacheVars, env, response, config, running, real_traffic_data, listeners, uuid, clock>>

(* Phase 1, lines 270-274 *)
Spawn(t) ==
    /\ Scheduled(t)
    /\ task[t].pc = "spawn"
    /\ \E r \in RandomDraws :
         \E out \in spawn_vehicles(state.vehicles, config, real_traffic_data,
                                   task[t].dt, r, uuid + 1) :
            /\ state' = [state EXCEPT !.vehicles = out.vehicles]
            /\ uuid' = uuid + (Len(out.vehicles) - Len(state.vehicles))
            /\ Goto(t, after_phase("spawn", out.raised))
            /\ hist' = Ran("spawn", out.raised)
    /\ UNCHANGED <<cacheVars, env, response, config, running, real_traffic_data, listeners, clock>>

(* Phase 2, lines 276-280: the phase raises after `done` intersections *)
Lights(t) ==
    /\ Scheduled(t)
    /\ task[t].pc = "lights"
    /\ \E done \in {k \in 0..Len(state.intersections) :
                       k = Len(state.intersections) \/ TRUE \in Faults} :
          LET raised == done < Len(state.intersections)
          IN /\ state' = [state EXCEPT !.intersections =
                   update_traffic_lights(@, state.vehicles, task[t].dt, done)]
             /\ Goto(t, after_phase("lights", raised))
             /\ hist' = Ran("lights", raised)
    /\ UNCHANGED <<cacheVars, env, response, config, running, real_traffic_data, listeners, uuid, clock>>

(* Phase 3, line 284: the copy of the vehicle list *)
VehiclesBegin(t) ==
    /\ Scheduled(t)
    /\ task[t].pc = "vehicles"
    /\ LET copy == Ids(state.vehicles)
       IN /\ Step(t, [task[t] EXCEPT
                  !.pc = IF copy = <<>> THEN phase_after("vehicles") ELSE "vehicle",
                  !.todo = copy])
          /\ hist' = [Ran("vehicles", FALSE) EXCEPT !.at_vehicles = copy]
    /\ UNCHANGED <<cacheVars, env, response, config, state, running, real_traffic_data, listeners,
                   uuid, clock>>

(* Phase 3, lines 285-292: one iteration of the loop *)
UpdateOne(t) ==
    /\ Scheduled(t)
    /\ task[t].pc = "vehicle"
    /\ LET id == Head(task[t].todo)
           i == IndexOf(state.vehicles, id)
       IN \E fault \in Faults :
            LET rest == rest_to_update(task[t].todo, fault)
            IN /\ state' = [state EXCEPT !.vehicles =
                     IF fault THEN evict(@, id)
                     ELSE [@ EXCEPT ![i] = update_vehicle(@, state.vehicles,
                              state.intersections, state.active_incidents,
                              config, task[t].dt)]]
               /\ Step(t, [task[t] EXCEPT
                     !.todo = rest,
                     !.pc = IF fault /\ ~Swallowed("vehicle") THEN "raised"
                            ELSE IF rest = <<>> THEN phase_after("vehicles")
                            ELSE "vehicle"])
               /\ hist' = [hist EXCEPT
                     !.updated = Append(@, id),
                     !.evicted = IF fault THEN @ \cup {id} ELSE @,
                     !.raised = IF fault THEN @ \cup {"vehicle"} ELSE @]
    /\ UNCHANGED <<cacheVars, env, response, config, running, real_traffic_data, listeners, uuid, clock>>

(* Phase 4, lines 294-298 *)
Interactions(t) ==
    /\ Scheduled(t)
    /\ task[t].pc = "interactions"
    /\ \E fault \in Faults :
          /\ state' = [state EXCEPT !.vehicles =
                IF fault THEN @
                ELSE handle_vehicle_interactions(@, config.min_following_distance)]
          /\ Goto(t, after_phase("interactions", fault))
          /\ hist' = Ran("interactions", fault)
    /\ UNCHANGED <<cacheVars, env, response, config, running, real_traffic_data, listeners, uuid, clock>>

(* Phase 5, lines 300-304 *)
Despawn(t) ==
    /\ Scheduled(t)
    /\ task[t].pc = "despawn"
    /\ \E fault \in Faults :
          /\ state' = IF fault THEN state
                      ELSE remove_completed_vehicles(state, real_traffic_data)
          /\ Goto(t, after_phase("despawn", fault))
          /\ hist' = Ran("despawn", fault)
    /\ UNCHANGED <<cacheVars, env, response, config, running, real_traffic_data, listeners, uuid, clock>>

(* Phase 6, lines 306-310 *)
Metrics(t) ==
    /\ Scheduled(t)
    /\ task[t].pc = "metrics"
    /\ \E fault \in Faults :
          /\ state' = IF fault THEN state ELSE update_metrics(state)
          /\ Goto(t, after_phase("metrics", fault))
          /\ hist' = Ran("metrics", fault)
    /\ UNCHANGED <<cacheVars, env, response, config, running, real_traffic_data, listeners, uuid, clock>>

(* Lines 312-316: the listeners are called with the state *)
Notify(t) ==
    /\ Scheduled(t)
    /\ task[t].pc = "notify"
    /\ LET called == notify_listeners(listeners)
           raised == "raises" \in Range(called)
       IN /\ running' = IF "stops" \in Range(called) THEN stop(running) ELSE running
          /\ Goto(t, after_phase("notify", raised))
          /\ hist' = [Ran("notify", raised) EXCEPT !.notified = called]
    /\ UNCHANGED <<cacheVars, env, response, config, state, real_traffic_data, listeners, uuid, clock>>

(* ---------------------------------------------------------------------- *)
(* Operations called from outside the loop (the request handlers of        *)
(* api/routes.py): the event loop runs each one when it is idle            *)
(* ---------------------------------------------------------------------- *)
(* stop(): the engine never sets _task before stop() does, so the cancel   *)
(* branch of lines 134-138 is never taken                                  *)
StopSimulation ==
    /\ cur = 0
    /\ running' = stop(running)
    /\ UNCHANGED <<cacheVars, env, response, config, state, real_traffic_data, listeners, task, cur, uuid,
                   clock, hist>>

(* stop() called by code that the tick itself runs, such as a listener:    *)
(* between two phases of the tick                                          *)
StopWithin(t) ==
    /\ cur = t
    /\ task[t].pc \in {"spawn", "lights", "vehicles", "interactions", "despawn",
                       "metrics", "notify"}
    /\ running
    /\ running' = stop(running)
    /\ UNCHANGED <<cacheVars, env, response, config, state, real_traffic_data, listeners, task, cur, uuid,
                   clock, hist>>

(* A reset that carries the incidents over *)
reset_keeps_incidents(st, now) ==
    [SimulationState(now) EXCEPT !.active_incidents = st.active_incidents]

(* reset(), line 148: the state afterwards *)
reset(st, now) == SimulationState(now)

(* POST /simulation/reset and reset() *)
ResetSimulation ==
    /\ cur = 0
    /\ state' = reset(state, clock)
    /\ UNCHANGED <<cacheVars, env, response, config, running, real_traffic_data, listeners, task, cur, uuid,
                   clock, hist>>

(* PUT /simulation/config *)
UpdateConfig ==
    /\ cur = 0
    /\ \E c \in ConfigDraws : config' = c
    /\ UNCHANGED <<cacheVars, env, response, state, running, real_traffic_data, listeners, task, cur, uuid,
                   clock, hist>>

(* update_real_traffic_data *)
UpdateRealTrafficData ==
    /\ cur = 0
    /\ \E data \in SnapshotDraws, variance \in VarianceDraws :
          /\ real_traffic_data' = <<data>>
          /\ config' = [config EXCEPT !.spawn_rate =
                           retarget_spawn_rate(data.average_speed_ratio)]
          /\ state' = [state EXCEPT !.vehicles =
                          update_segment_speed_limits(@, data.segments, variance)]
    /\ UNCHANGED <<cacheVars, env, response, running, listeners, task, cur, uuid, clock, hist>>

(* POST /simulation/intersection and add_intersection *)
AddIntersection ==
    /\ cur = 0
    /\ uuid + 2 <= IdBound
    /\ \E d \in DurationDraws :
          state' = [state EXCEPT !.intersections =
              Append(@, Intersection(uuid + 1, Center,
                        <<TrafficLight(uuid + 2, Center, d[1], d[2], d[3])>>))]
    /\ uuid' = uuid + 2
    /\ UNCHANGED <<cacheVars, env, response, config, running, real_traffic_data, listeners, task, cur,
                   clock, hist>>

(* PUT /simulation/traffic-light *)
AdjustTrafficLight ==
    /\ cur = 0
    /\ \E light_id \in 1..IdBound, d \in TimingDraws :
          state' = [state EXCEPT !.intersections =
              adjust_traffic_light_timing(@, light_id, d[1], d[2], d[3])]
    /\ UNCHANGED <<cacheVars, env, response, config, running, real_traffic_data, listeners, task, cur, uuid,
                   clock, hist>>

(* POST /simulation/incident and add_incident *)
AddIncident ==
    /\ cur = 0
    /\ uuid < IdBound
    /\ \E type \in IncidentDraws, loc \in LocationDraws, end \in EndTimeDraws :
          state' = [state EXCEPT !.active_incidents =
              Append(@, TrafficIncident(uuid + 1, type, loc, end))]
    /\ uuid' = uuid + 1
    /\ UNCHANGED <<cacheVars, env, response, config, running, real_traffic_data, listeners, task, cur,
                   clock, hist>>

(* DELETE /simulation/incident/{incident_id} *)
RemoveIncident ==
    /\ cur = 0
    /\ \E incident_id \in 1..IdBound :
          state' = [state EXCEPT !.active_incidents = remove_incident(@, incident_id)]
    /\ UNCHANGED <<cacheVars, env, response, config, running, real_traffic_data, listeners, task, cur, uuid,
                   clock, hist>>

(* GET /dashboard/metrics *)
GetDashboardMetrics ==
    /\ cur = 0
    /\ response' = <<TrafficMetrics(state, config)>>
    /\ UNCHANGED <<cacheVars, env, config, state, running, real_traffic_data,
                   listeners, task, cur, uuid, clock, hist>>

(* add_listener: each callback of ListenerDraws is registered at most once *)
AddListener ==
    /\ cur = 0
    /\ \E cb \in ListenerDraws \ Range(listeners) : listeners' = Append(listeners, cb)
    /\ UNCHANGED <<cacheVars, env, response, config, state, running, real_traffic_data, task, cur, uuid,
                   clock, hist>>

(* remove_listener *)
RemoveListener ==
    /\ cur = 0
    /\ \E cb \in Range(listeners) :
          listeners' = SelectSeq(listeners, LAMBDA x : x # cb)
    /\ UNCHANGED <<cacheVars, env, response, config, state, running, real_traffic_data, task, cur, uuid,
                   clock, hist>>

(* The steps of the start() coroutine t *)
Engine(t) ==
    \/ StartRun(t)
    \/ LoopCheck(t)
    \/ TickBegin(t)
    \/ Spawn(t)
    \/ Lights(t)
    \/ VehiclesBegin(t)
    \/ UpdateOne(t)
    \/ Interactions(t)
    \/ Despawn(t)
    \/ Metrics(t)
    \/ Notify(t)
    \/ LoopFinally(t)
    \/ Wake(t)

(* The engine's lifecycle: start, stop, cancellation, reset and listeners *)
(* ---------------------------------------------------------------------- *)
(* The callers of the response cache                                       *)
(* ---------------------------------------------------------------------- *)
engineVars == <<config, state, running, real_traffic_data, listeners, task, cur,
                uuid, clock, hist, response, env>>

(* Time passes between two operations *)
Advance ==
    \E d \in AdvanceDraws :
        /\ time_now + d <= NowBound
        /\ time_now' = time_now + d
        /\ UNCHANGED <<engineVars, response_cache, returned, wrapped, call_count,
                       pending, cache_hist>>

(* cache.set(key, value) *)
CacheSet ==
    \E key \in KeyDraws, value \in ValueDraws :
        /\ response_cache' = set(response_cache, key, value, time_now)
        /\ returned' = [op |-> "set", value |-> None]
        /\ cache_hist' = [cache_hist EXCEPT !.last_set[key] = <<value, time_now>>,
                                            !.cleared = @ \ {key},
                                            !.dropped = @ \ {key}]
        /\ UNCHANGED <<engineVars, time_now, wrapped, call_count, pending>>

(* cache.get(key, ttl_seconds) *)
CacheGet ==
    \E key \in KeyDraws, ttl_seconds \in TtlDraws :
        /\ response_cache.hits + response_cache.misses < MaxGets
        /\ response_cache' = get(response_cache, key, ttl_seconds, time_now)
        /\ returned' = [op |-> "get", key |-> key, ttl_seconds |-> ttl_seconds,
                        value |-> get_value(response_cache, key, ttl_seconds, time_now)]
        /\ cache_hist' =
               [cache_hist EXCEPT !.dropped =
                   IF /\ key \in DOMAIN response_cache.cache
                      /\ expired(response_cache.cache[key][2], ttl_seconds, time_now)
                   THEN @ \cup {key} ELSE @]
        /\ UNCHANGED <<engineVars, time_now, wrapped, call_count, pending>>

(* cache.clear() and clear_cache() *)
CacheClear ==
    /\ response_cache' = clear(response_cache)
    /\ returned' = [op |-> "clear", value |-> None]
    /\ cache_hist' = [cache_hist EXCEPT !.cleared = KeyDraws,
                                        !.completed = [x \in ArgDraws |-> <<>>]]
    /\ UNCHANGED <<engineVars, time_now, wrapped, call_count, pending>>

(* A wrapper whose second caller joins the call in flight for the same     *)
(* arguments instead of executing the function again                       *)
CallBeginJoined(c) ==
    \E x \in ArgDraws :
        LET cached_result == get_value(response_cache, cache_key(x),
                                       ttl_minutes * 60, time_now)
            in_flight == \E d \in Callers : pending[d] = <<x>>
        IN  /\ pending[c] = <<>>
            /\ response_cache.hits + response_cache.misses < MaxGets
            /\ response_cache' = get(response_cache, cache_key(x),
                                     ttl_minutes * 60, time_now)
            /\ cache_hist' = [cache_hist EXCEPT !.begun = @ + 1, !.args = x]
            /\ IF cached_result # None
               THEN /\ returned' = [op |-> "call", args |-> x,
                                    value |-> cached_result]
                    /\ UNCHANGED <<call_count, pending>>
               ELSE /\ call_count' = IF in_flight THEN call_count
                                     ELSE call_count + 1
                    /\ pending' = [pending EXCEPT ![c] = <<x>>]
                    /\ returned' = [op |-> "await", args |-> x, value |-> None]
            /\ UNCHANGED <<engineVars, time_now, wrapped>>

(* wrapper(), lines 120-140: a caller calls the wrapped function with x;   *)
(* a cached result that is not None is returned, otherwise the function    *)
(* starts to execute and the caller awaits it                              *)
CallBegin(c) ==
    \E x \in ArgDraws :
        LET cached_result == get_value(response_cache, cache_key(x),
                                       ttl_minutes * 60, time_now)
        IN  /\ pending[c] = <<>>
            /\ response_cache.hits + response_cache.misses < MaxGets
            /\ response_cache' = get(response_cache, cache_key(x),
                                     ttl_minutes * 60, time_now)
            /\ cache_hist' = [cache_hist EXCEPT !.begun = @ + 1, !.args = x]
            /\ IF cached_result # None
               THEN /\ returned' = [op |-> "call", args |-> x,
                                    value |-> cached_result]
                    /\ UNCHANGED <<call_count, pending>>
               ELSE /\ call_count' = call_count + 1
                    /\ pending' = [pending EXCEPT ![c] = <<x>>]
                    /\ returned' = [op |-> "await", args |-> x, value |-> None]
            /\ UNCHANGED <<engineVars, time_now, wrapped>>

(* wrapper(), lines 140-145: the function returns; its result is cached    *)
(* and returned                                                            *)
CallEnd(c) ==
    /\ pending[c] # <<>>
    /\ LET x == pending[c][1]
       IN  /\ response_cache' = set(response_cache, cache_key(x), wrapped[x], time_now)
           /\ returned' = [op |-> "call", args |-> x, value |-> wrapped[x]]
           /\ cache_hist' = [cache_hist EXCEPT
                                !.completed[x] = <<wrapped[x], time_now>>,
                                !.previous[x] = cache_hist.completed[x]]
    /\ pending' = [pending EXCEPT ![c] = <<>>]
    /\ UNCHANGED <<engineVars, time_now, wrapped, call_count>>

Init == env = "lifecycle" /\ InitEngine

Next ==
    \/ StartSimulation
    \/ StopSimulation
    \/ ResetSimulation
    \/ AddListener
    \/ RemoveListener
    \/ \E t \in Tasks : Engine(t) \/ Cancel(t) \/ StopWithin(t)

Spec == Init /\ [][Next]_vars

(* Every operation that is called from outside the loop *)
InitRequests == env = "requests" /\ InitEngine

NextRequests ==
    \/ StartSimulation
    \/ StopSimulation
    \/ ResetSimulation
    \/ UpdateConfig
    \/ UpdateRealTrafficData
    \/ AddIntersection
    \/ AdjustTrafficLight
    \/ AddIncident
    \/ RemoveIncident
    \/ AddListener
    \/ RemoveListener
    \/ \E t \in Tasks : Engine(t) \/ Cancel(t)

SpecRequests == InitRequests /\ [][NextRequests]_vars

(* Phases of a tick that raise *)
InitFaults == env = "faults" /\ InitEngine

NextFaults ==
    \/ StartSimulation
    \/ StopSimulation
    \/ AddIntersection
    \/ AddListener
    \/ \E t \in Tasks : Engine(t) \/ Cancel(t)

SpecFaults == InitFaults /\ [][NextFaults]_vars

(* Vehicles that are spawned, evicted and despawned, with resets between   *)
(* the ticks                                                               *)
NextCensus ==
    \/ StartSimulation
    \/ StopSimulation
    \/ ResetSimulation
    \/ UpdateRealTrafficData
    \/ \E t \in Tasks : Engine(t)

SpecCensus == InitFaults /\ [][NextCensus]_vars

(* The spawn scenario: every trial succeeds, nothing leaves *)
InitSaturation == env = "saturation" /\ InitEngine

NextSaturation ==
    \/ StartSimulation
    \/ StopSimulation
    \/ \E t \in Tasks : Engine(t)

SpecSaturation == InitSaturation /\ [][NextSaturation]_vars

(* Intersections, their lights and timing adjustments *)
InitLights == env = "lights" /\ InitEngine

NextLights ==
    \/ StartSimulation
    \/ StopSimulation
    \/ AddIntersection
    \/ AdjustTrafficLight
    \/ \E t \in Tasks : Engine(t)

SpecLights == InitLights /\ [][NextLights]_vars

(* Traffic snapshots, spawning and despawning *)
InitTraffic == env = "traffic" /\ InitEngine

NextTraffic ==
    \/ StartSimulation
    \/ StopSimulation
    \/ ResetSimulation
    \/ UpdateRealTrafficData
    \/ \E t \in Tasks : Engine(t)

SpecTraffic == InitTraffic /\ [][NextTraffic]_vars

(* Incidents at and away from the place where the vehicle spawns *)
InitIncidents == env = "incidents" /\ InitEngine

NextIncidents ==
    \/ StartSimulation
    \/ StopSimulation
    \/ AddIncident
    \/ RemoveIncident
    \/ \E t \in Tasks : Engine(t)

SpecIncidents == InitIncidents /\ [][NextIncidents]_vars

(* The dashboard read while phases of the tick raise *)
NextDashboard ==
    \/ StartSimulation
    \/ StopSimulation
    \/ GetDashboardMetrics
    \/ \E t \in Tasks : Engine(t) \/ Cancel(t)

SpecDashboard == InitFaults /\ [][NextDashboard]_vars

(* Vehicles that accelerate, brake and meet a light *)
InitRoad == env = "road" /\ InitEngine

NextRoad ==
    \/ StartSimulation
    \/ StopSimulation
    \/ \E t \in Tasks : Engine(t)

SpecRoad == InitRoad /\ [][NextRoad]_vars

(* The dashboard read between the ticks of moving and of stopped vehicles *)
NextEmissions ==
    \/ StartSimulation
    \/ StopSimulation
    \/ GetDashboardMetrics
    \/ \E t \in Tasks : Engine(t)

SpecEmissions == InitRoad /\ [][NextEmissions]_vars

(* Incidents and traffic snapshots that come and go between the ticks *)
NextTargets ==
    \/ StartSimulation
    \/ StopSimulation
    \/ AddIncident
    \/ RemoveIncident
    \/ UpdateRealTrafficData
    \/ \E t \in Tasks : Engine(t)

SpecTargets == InitRoad /\ [][NextTargets]_vars

(* The timed scenarios: one vehicle starting from rest and one red light,  *)
(* ticked at 100 ms                                                        *)
InitScenario == env = "scenario" /\ InitEngine

NextScenario ==
    \/ StartSimulation
    \/ StopSimulation
    \/ \E t \in Tasks : Engine(t)

SpecScenario == InitScenario /\ [][NextScenario]_vars

(* A junction with a queue of waiting vehicles *)
InitQueue == env = "queue" /\ InitEngine

NextQueue ==
    \/ StartSimulation
    \/ StopSimulation
    \/ \E t \in Tasks : Engine(t)

SpecQueue == InitQueue /\ [][NextQueue]_vars

(* Waiting vehicles at a light that cycles, in a loop that is started and  *)
(* never stopped.  The event loop runs every task that is ready and every  *)
(* asyncio.sleep ends, so a step of the loop that stays possible is taken. *)
InitRelease == env = "release" /\ InitEngine

NextRelease ==
    \/ StartSimulation
    \/ \E t \in Tasks : Engine(t)

SpecRelease ==
    /\ InitRelease
    /\ [][NextRelease]_vars
    /\ WF_vars(StartSimulation)
    /\ WF_vars(\E t \in Tasks : Engine(t))

(* The cache used directly *)
InitCacheUse == env = "cache" /\ InitEngine

NextCacheUse ==
    \/ Advance
    \/ CacheSet
    \/ CacheGet
    \/ CacheClear

SpecCache == InitCacheUse /\ [][NextCacheUse]_vars

(* A function under @cache_response and its callers *)
InitDecorator == env = "decorator" /\ InitEngine

NextDecorator ==
    \/ Advance
    \/ CacheClear
    \/ \E c \in Callers : CallBegin(c)
    \/ \E c \in Callers : CallEnd(c)

SpecDecorator == InitDecorator /\ [][NextDecorator]_vars

(* The data behind the wrapped function changes while a call is in        *)
(* flight: from now on the function returns other results for the         *)
(* arguments of the calls in flight                                        *)
Drift ==
    /\ \E c \in Callers : pending[c] # <<>>
    /\ \E w \in WrappedDraws \ {wrapped} :
          /\ \A y \in ArgDraws :
                w[y] # wrapped[y] => \E c \in Callers : pending[c] = <<y>>
          /\ wrapped' = w
    /\ UNCHANGED <<engineVars, response_cache, time_now, returned, call_count,
                   pending, cache_hist>>

(* Calls that overlap while the results of the wrapped function change *)
NextOverlap ==
    \/ Advance
    \/ CacheClear
    \/ Drift
    \/ \E c \in Callers : CallBegin(c)
    \/ \E c \in Callers : CallEnd(c)

SpecOverlap == InitDecorator /\ [][NextOverlap]_vars

(* ---------------------------------------------------------------------- *)
(* Properties                                                              *)
(* ---------------------------------------------------------------------- *)
InTick == {"spawn", "lights", "vehicles", "vehicle", "interactions",
           "despawn", "metrics", "notify"}
PhaseOrder ==
    <<"spawn", "lights", "vehicles", "interactions", "despawn", "metrics", "notify">>
IsPrefix(s, t) == Len(s) <= Len(t) /\ \A i \in DOMAIN s : s[i] = t[i]

LightPlaces(st) ==
    UNION {{<<i, j>> : j \in DOMAIN st.intersections[i].traffic_lights} :
           i \in DOMAIN st.intersections}
LightAt(st, p) == st.intersections[p[1]].traffic_lights[p[2]]
PhaseCycle == {<<RED, GREEN>>, <<GREEN, YELLOW>>, <<YELLOW, RED>>}

C1_Step ==
    \A p \in LightPlaces(state) \cap LightPlaces(state)' :
        LightAt(state, p).current_phase # LightAt(state, p)'.current_phase
        => /\ <<LightAt(state, p).current_phase, LightAt(state, p)'.current_phase>>
                 \in PhaseCycle
           /\ LightAt(state, p)'.time_in_current_phase = 0

(* C1: under every sequence of ticks, intersection creations and timing    *)
(* adjustments, a light changes phase only RED->GREEN, GREEN->YELLOW or    *)
(* YELLOW->RED, its time_in_current_phase is 0 right after a change, and   *)
(* it is >= 0 in every reachable state.                                    *)
C1_LightCycle ==
    /\ [](\A p \in LightPlaces(state) :
             LightAt(state, p).time_in_current_phase >= 0)
    /\ [][C1_Step]_vars

(* A tick whose light phase has run left a light RED with no time elapsed: *)
(* the light update of this tick took it from YELLOW to RED.               *)
C1_Witness ==
    /\ "lights" \in Range(hist.ran)
    /\ \E p \in LightPlaces(state) :
          /\ LightAt(state, p).current_phase = RED
          /\ LightAt(state, p).time_in_current_phase = 0

(* C2: from the increment of a tick() call to its end, also when a phase   *)
(* of the tick raises, state.tick is exactly one more than before the      *)
(* call, and state.timestamp is not below the timestamp left by the        *)
(* previous tick.                                                          *)
C2_TickCounts ==
    hist.tick0 # None
    => /\ state.tick = hist.tick0 + 1
       /\ state.timestamp >= hist.ts0

(* The second tick returned although one of its phases raised. *)
C2_Witness ==
    /\ hist.tick0 = 1
    /\ hist.raised # {}
    /\ \E t \in Tasks : task[t].pc \in {"returned", "raised"}

Outside(position, bbox) ==
    \/ position.lat < bbox.south - 5000 \/ position.lat > bbox.north + 5000
    \/ position.lng < bbox.west - 5000 \/ position.lng > bbox.east + 5000
Leaving ==
    IF real_traffic_data = NoSnapshot THEN {}
    ELSE {i \in DOMAIN state.vehicles :
             Outside(state.vehicles[i].position, real_traffic_data[1].bounding_box)}
C3_Step ==
    /\ state'.vehicles_completed < state.vehicles_completed
       => state' = SimulationState(clock)
    /\ \A t \in Tasks :
          IF task[t].pc = "despawn" /\ task'[t].pc # "despawn"
          THEN /\ state'.vehicles_completed
                     = state.vehicles_completed + Cardinality(Leaving)
               /\ Len(state'.vehicles) = Len(state.vehicles) - Cardinality(Leaving)
               /\ Range(state'.vehicles)
                     = {state.vehicles[i] : i \in DOMAIN state.vehicles \ Leaving}
          ELSE \/ state'.vehicles_completed = state.vehicles_completed
               \/ state' = SimulationState(clock)

(* C3: state.vehicles_completed decreases only by reset(); it changes only *)
(* in the despawn phase, where it grows by exactly the number of vehicles  *)
(* that lie outside the snapshot's bounding box expanded by the margin,    *)
(* and exactly those vehicles leave the active set.                        *)
C3_CompletedCounts == [][C3_Step]_vars

(* A vehicle has left the area and was counted, and the active set is      *)
(* empty again.                                                            *)
C3_Witness ==
    /\ state.vehicles_completed >= 1
    /\ real_traffic_data # NoSnapshot
    /\ \E t \in Tasks : task[t].pc = "metrics"

C4_Step ==
    \A t \in Tasks :
        task[t].pc = "spawn" /\ task'[t].pc # "spawn"
        => /\ Len(state'.vehicles) - Len(state.vehicles) \in {0, 1}
           /\ Len(state.vehicles) >= config.max_vehicles
              => state'.vehicles = state.vehicles

(* C4: the spawn phase adds at most one vehicle and none when the active   *)
(* count is already >= max_vehicles; with spawn_rate = 1.0,                *)
(* max_vehicles = 5, dt = 0.1 s and every trial succeeding, the active     *)
(* count after the spawn phase of tick n is min(n, 5).                     *)
C4_SpawnSaturates ==
    /\ [](\A t \in Tasks :
             Len(state.vehicles)
                = Min(IF task[t].pc = "spawn" THEN state.tick - 1 ELSE state.tick,
                      5))
    /\ [][C4_Step]_vars

(* The spawn phase of the seventh tick has run with five vehicles active   *)
(* and added none.                                                         *)
C4_Witness ==
    /\ state.tick = 7
    /\ "spawn" \in Range(hist.ran)
    /\ Len(state.vehicles) = 5

C5_Step ==
    /\ (cur = 0 /\ cur' = 0 /\ task' = task /\ running /\ ~running')
       => state' = state
    /\ \A t \in Tasks :
          /\ (task[t].pc \in InTick /\ ~running)
             => task'[t].pc \in InTick \cup {"returned"}
          /\ (task[t].pc \in {"returned", "raised"} /\ ~running)
             => task'[t].pc \in {task[t].pc, "loop"}
          /\ (task[t].pc = "loop" /\ ~running)
             => task'[t].pc \in {"loop", "done"}

(* C5: stop() leaves the engine STOPPED whether it was RUNNING or STOPPED, *)
(* a second call changes nothing, and stop() leaves the simulation state   *)
(* unchanged; a tick during which the engine was stopped runs on to its    *)
(* return with every phase run, and the loop then ends without sleeping    *)
(* or starting another tick.                                               *)
C5_StopIdempotent ==
    /\ [](/\ stop(running) = FALSE
          /\ stop(stop(running)) = stop(running)
          /\ \A t \in Tasks :
                task[t].pc = "returned" /\ ~running => hist.ran = PhaseOrder)
    /\ [][C5_Step]_vars

(* The engine was stopped during a tick, and the tick has gone on to its   *)
(* metrics phase.                                                          *)
C5_Witness ==
    /\ ~running
    /\ \E t \in Tasks : task[t].pc = "metrics"

C6_Step ==
    (\E t \in Tasks : task[t].pc \in InTick)
    => /\ config' = config
       /\ real_traffic_data' = real_traffic_data
       /\ listeners' = listeners
       /\ state'.active_incidents = state.active_incidents
       /\ Len(state'.intersections) = Len(state.intersections)
       /\ \A p \in LightPlaces(state) :
             /\ LightAt(state, p)'.green_duration = LightAt(state, p).green_duration
             /\ LightAt(state, p)'.yellow_duration = LightAt(state, p).yellow_duration
             /\ LightAt(state, p)'.red_duration = LightAt(state, p).red_duration
       /\ state'.tick = state.tick

(* C6: a coroutine that is inside tick(), from after the increment to the  *)
(* end of the listener notification, holds the event loop, so at most one  *)
(* tick is in progress; when the event loop is free every loop is          *)
(* sleeping, not yet started or ended; and no step taken while a tick is   *)
(* in progress resets the state, replaces the configuration or the traffic *)
(* snapshot, adds or removes an incident or an intersection, or changes a  *)
(* light's durations.                                                      *)
C6_TicksAtomic ==
    /\ [](/\ \A t \in Tasks :
                task[t].pc \in InTick \cup {"tick", "returned", "raised", "loop"}
                => cur = t
          /\ cur = 0 => \A t \in Tasks :
                task[t].pc \in {"none", "created", "failed", "sleep", "done"})
    /\ [][C6_Step]_vars

(* A tick is in its metrics phase after a traffic snapshot, an incident    *)
(* and an intersection were given to the engine.                           *)
C6_Witness ==
    /\ \E t \in Tasks : task[t].pc = "metrics"
    /\ real_traffic_data # NoSnapshot
    /\ state.active_incidents # <<>>

(* C7: the phases a tick has run so far are an initial part of Spawn,      *)
(* Light Update, vehicle updates, pairwise interactions, Despawn, Metrics, *)
(* Broadcast; a tick that returned has run all of them; a vehicle is       *)
(* updated only between the light update and the pairwise interactions.    *)
C7_PhaseOrder ==
    /\ IsPrefix(hist.ran, PhaseOrder)
    /\ \A t \in Tasks :
          /\ task[t].pc = "returned" => hist.ran = PhaseOrder
          /\ task[t].pc = "vehicle" => hist.ran = <<"spawn", "lights", "vehicles">>
          /\ task[t].pc \in {"tick", "spawn", "lights", "vehicles"}
             => hist.updated = <<>>
          /\ task[t].pc \in {"interactions", "despawn", "metrics", "notify", "returned"}
             => hist.updated = hist.at_vehicles

(* A tick with two vehicles has returned. *)
C7_Witness ==
    /\ \E t \in Tasks : task[t].pc = "returned"
    /\ Len(hist.updated) = 2
    /\ hist.ran = PhaseOrder

(* C8: a tick in which the spawn, light-update, despawn, metrics or        *)
(* broadcast phase raised does not raise itself, and when it returns it    *)
(* has run every phase.                                                    *)
C8_PhaseErrorSwallowed ==
    hist.raised \cap {"spawn", "lights", "despawn", "metrics", "notify"} # {}
    => \A t \in Tasks :
          /\ task[t].pc # "raised"
          /\ task[t].pc = "returned" => hist.ran = PhaseOrder

(* A tick whose light phase raised has returned. *)
C8_Witness ==
    /\ hist.raised = {"lights"}
    /\ \E t \in Tasks : task[t].pc = "returned"

Survivors == SelectSeq(hist.at_vehicles, LAMBDA id : id \notin hist.evicted)

(* C9: in a tick in which the update of a vehicle raised, the active set   *)
(* at the end of the vehicle phase is the list of its start without        *)
(* exactly the vehicles whose update raised, the update of every vehicle   *)
(* of the start was called, in order, and the tick returns with every      *)
(* phase run.                                                              *)
C9_VehicleErrorEvicts ==
    "vehicle" \in hist.raised
    => \A t \in Tasks :
          /\ task[t].pc # "raised"
          /\ task[t].pc = "interactions"
             => /\ hist.updated = hist.at_vehicles
                /\ Ids(state.vehicles) = Survivors
                /\ hist.evicted \subseteq Range(hist.at_vehicles)
          /\ task[t].pc = "returned" => hist.ran = PhaseOrder

(* The update of the first of two vehicles raised; the second was updated  *)
(* and is the only vehicle left.                                           *)
C9_Witness ==
    /\ \E t \in Tasks : task[t].pc = "interactions"
    /\ Len(hist.at_vehicles) = 2
    /\ hist.evicted = {hist.at_vehicles[1]}
    /\ hist.updated = hist.at_vehicles
    /\ Ids(state.vehicles) = <<hist.at_vehicles[2]>>

C10_Step ==
    \A t \in Tasks :
        /\ (task[t].pc = "raised" /\ running)
           => task'[t].pc \in {"raised", "sleep"}
        /\ (task[t].pc = "sleep" /\ running')
           => task'[t].pc \in {"sleep", "loop"}
        /\ (task[t].pc = "loop" /\ running)
           => task'[t].pc \in {"loop", "tick"}
        /\ (task[t].pc # "done" /\ task'[t].pc = "done")
           => (task[t].pc = "loop" /\ ~running) \/ task[t].pc = "sleep"

(* C10: while the engine is RUNNING, a loop whose tick() raised goes to    *)
(* the inter-tick sleep, wakes from it to the loop test and from there     *)
(* into the next tick; a loop ends only from the loop test when the engine *)
(* has been stopped, or from its sleep when its task is cancelled.         *)
C10_LoopSurvivesError == [][C10_Step]_vars

(* The tick before raised, and the loop is in the spawn phase of the next  *)
(* tick.                                                                   *)
C10_Witness ==
    /\ hist.escaped
    /\ running
    /\ \E t \in Tasks : task[t].pc = "spawn"

C11_Step ==
    \A t \in Tasks :
        /\ (task[t].pc = "created" /\ task'[t].pc # "created"
               /\ config.tick_interval_ms <= 0)
           => /\ task'[t].pc = "failed"
              /\ running' = running
              /\ state' = state
        /\ task[t].pc = "failed" => task'[t].pc \in {"failed", "created"}

(* C11: start() with tick_interval_ms <= 0 ends with an error on its first *)
(* run, without setting the running flag or touching the state; the failed *)
(* coroutine never reaches a tick; and an engine whose configuration has   *)
(* such an interval is never RUNNING and has executed no tick.             *)
C11_StartRejects ==
    /\ [](config.tick_interval_ms <= 0
            => /\ ~running
               /\ state.tick = 0
               /\ \A t \in Tasks : task[t].pc \in {"none", "created", "failed"})
    /\ [][C11_Step]_vars

(* start() was called with tick_interval_ms = 0 and has failed. *)
C11_Witness ==
    /\ config.tick_interval_ms <= 0
    /\ \E t \in Tasks : task[t].pc = "failed"

(* The vehicle whose update is next in the tick of task t *)
Updating(t) == state.vehicles[IndexOf(state.vehicles, Head(task[t].todo))]
(* The distance between a vehicle and an incident, in the unit of          *)
(* impact_radius, and whether the vehicle is inside the incident's radius  *)
IncidentDistance(v, incident) ==
    calculate_distance(v.position, incident.location) * 100
InRadius(v, incident) == IncidentDistance(v, incident) < impact_radius(incident.type)
(* target_speed x (1 - fraction x falloff), the fraction in tenths and the *)
(* falloff 1 - distance / radius                                           *)
Ceiling(v, incident, fraction) ==
    (v.target_speed * (10 * impact_radius(incident.type)
                         - fraction * (impact_radius(incident.type)
                                         - IncidentDistance(v, incident))))
       \div (10 * impact_radius(incident.type))

(* C12: when a vehicle is updated inside the radius of an active closure,  *)
(* the speed the closure allows it is target_speed x (1 - 1.0 x falloff),  *)
(* which is 0 at the closure's location.                                   *)
C12_ClosureStops ==
    \A t \in Tasks :
        task[t].pc = "vehicle"
        => \A i \in DOMAIN state.active_incidents :
              (state.active_incidents[i].type = "closure"
                 /\ InRadius(Updating(t), state.active_incidents[i]))
              => /\ affected_speed(Updating(t), state.active_incidents[i])
                       = Ceiling(Updating(t), state.active_incidents[i], 10)
                 /\ IncidentDistance(Updating(t), state.active_incidents[i]) = 0
                    => get_incident_effect(Updating(t), state.active_incidents) = 0

(* A vehicle with target speed 50 km/h is about to be updated at the       *)
(* location of a closure.                                                  *)
C12_Witness ==
    \E t \in Tasks :
        /\ task[t].pc = "vehicle"
        /\ Updating(t).target_speed = 5000
        /\ \E i \in DOMAIN state.active_incidents :
              /\ state.active_incidents[i].type = "closure"
              /\ state.active_incidents[i].location = Updating(t).position

(* The greatest reduction of each category as the claim gives it, tenths *)
StatedReduction(type) ==
    CASE type = "accident" -> 7
      [] type = "construction" -> 5
      [] type = "closure" -> 10
      [] type = "slowdown" -> 3
      [] type = "event" -> 6
      [] OTHER -> 5

(* C13: when a vehicle is updated inside the radius of an incident, the    *)
(* speed the incident allows it is target_speed reduced by the category's  *)
(* greatest fraction (accident 70%, construction 50%, slowdown 30%, event  *)
(* 60%, unknown 50%) times the linear falloff: target_speed x 0.3, 0.5,    *)
(* 0.7, 0.4 and 0.5 at the incident's location.                            *)
C13_ReductionTable ==
    \A t \in Tasks :
        task[t].pc = "vehicle"
        => \A i \in DOMAIN state.active_incidents :
              (state.active_incidents[i].type # "closure"
                 /\ InRadius(Updating(t), state.active_incidents[i]))
              => affected_speed(Updating(t), state.active_incidents[i])
                    = Ceiling(Updating(t), state.active_incidents[i],
                              StatedReduction(state.active_incidents[i].type))

(* A vehicle with target speed 50 km/h is about to be updated at the       *)
(* location of an accident, the only incident.                             *)
C13_Witness ==
    \E t \in Tasks :
        /\ task[t].pc = "vehicle"
        /\ Updating(t).target_speed = 5000
        /\ Len(state.active_incidents) = 1
        /\ state.active_incidents[1].type = "accident"
        /\ state.active_incidents[1].location = Updating(t).position

C14_Step ==
    /\ task' # task => state'.active_incidents = state.active_incidents
    /\ state'.active_incidents # state.active_incidents
       => \/ /\ Len(state'.active_incidents) = Len(state.active_incidents) + 1
             /\ SubSeq(state'.active_incidents, 1, Len(state.active_incidents))
                   = state.active_incidents
          \/ /\ \E id \in 1..IdBound :
                   state'.active_incidents
                      = SelectSeq(state.active_incidents, LAMBDA i : i.id # id)
             /\ state'.vehicles = state.vehicles
             /\ state'.intersections = state.intersections

(* C14: no step of a tick or of the loop changes active_incidents, also    *)
(* when the clock has passed an incident's end_time; the list changes only *)
(* by add_incident appending one incident or by remove_incident(id)        *)
(* dropping exactly the incidents with that id, in a step that leaves the  *)
(* other incidents, the vehicles and the intersections unchanged.          *)
C14_IncidentsPersist == [][C14_Step]_vars

(* An incident whose end_time has passed is still active after two ticks,  *)
(* and one other incident was removed meanwhile.                           *)
C14_Witness ==
    /\ state.tick = 2
    /\ uuid = 3
    /\ Len(state.active_incidents) = 1
    /\ state.active_incidents[1].end_time = 0
    /\ clock > 0
    /\ \E t \in Tasks : task[t].pc = "returned"

OwnedLights == {LightAt(state, p).id : p \in LightPlaces(state)}

(* C15: for every light identity that no intersection owns and every       *)
(* choice of durations, adjust_traffic_light_timing returns False and      *)
(* leaves every intersection and light as it was.                          *)
C15_UnknownLight ==
    \A light_id \in (0..(IdBound + 1)) \ OwnedLights, d \in TimingDraws :
        /\ ~adjust_found(state.intersections, light_id)
        /\ adjust_traffic_light_timing(state.intersections, light_id,
                                       d[1], d[2], d[3]) = state.intersections

(* An intersection owns a light that has been ticked and whose timing was  *)
(* adjusted, and the identity of the intersection itself is not a light's. *)
C15_Witness ==
    /\ state.intersections # <<>>
    /\ state.intersections[1].id \notin OwnedLights
    /\ \E p \in LightPlaces(state) :
          /\ LightAt(state, p).time_in_current_phase > 0
          /\ LightAt(state, p).yellow_duration = 2

(* The vehicle Updating(t) as the step leaves it *)
Updated(t) == state'.vehicles[IndexOf(state.vehicles, Head(task[t].todo))]
(* The step is the update of a vehicle by the tick of task t *)
UpdateStep(t) ==
    /\ task[t].pc = "vehicle"
    /\ hist'.updated # hist.updated
    /\ Len(state'.vehicles) = Len(state.vehicles)

C16_Step ==
    \A t \in Tasks :
        UpdateStep(t)
        => Updated(t).current_speed
              <= Max(Updating(t).current_speed,
                     Min(Updating(t).target_speed,
                         Updating(t).current_speed
                            + accel_step(config, Updating(t), task[t].dt)))

C17_Step ==
    \A t \in Tasks :
        UpdateStep(t)
        => /\ Updated(t).current_speed
                 >= Updating(t).current_speed
                       - decel_step(config, Updating(t), task[t].dt)
           /\ Updated(t).current_speed
                 <= Updating(t).current_speed
                       + accel_step(config, Updating(t), task[t].dt)

(* C17: the update of a vehicle changes its current_speed by no more than  *)
(* the per-tick limits: it rises by at most base_acceleration x profile    *)
(* multiplier x attenuation x dt x 3.6 and drops by at most                *)
(* base_deceleration x profile multiplier x dt x 3.6, also in the tick in  *)
(* which the vehicle stops for a red or yellow light.                      *)
C17_SpeedChangeBounded == [][C17_Step]_vars

(* The vehicle that approached the crossing at 50 km/h is waiting at the   *)
(* light with speed 0 after the first tick's update.                       *)
C17_Witness ==
    /\ state.tick = 1
    /\ hist.updated # <<>>
    /\ \E i \in DOMAIN state.vehicles :
          /\ state.vehicles[i].id = 103
          /\ state.vehicles[i].waiting_at_light
          /\ state.vehicles[i].current_speed = 0

C18_Step ==
    \A t \in Tasks :
        UpdateStep(t)
        => IF Updating(t).current_speed < Updating(t).target_speed
           THEN Updated(t).current_speed > Updating(t).current_speed
           ELSE Updated(t).current_speed = Updating(t).current_speed

(* C18: the NORMAL vehicle that starts at rest with target speed 50 km/h,  *)
(* alone, with no incident and no light controlling it, at dt = 100 ms:    *)
(* every update raises its speed until the speed equals the target speed   *)
(* and leaves it there; the speed never exceeds 50 km/h; and it is at      *)
(* least 45 km/h from the update of tick 100 on.                           *)
C18_ReachesCruise ==
    /\ [](\A i \in DOMAIN state.vehicles :
             /\ state.vehicles[i].target_speed = 5000
             /\ state.vehicles[i].current_speed <= 5000
             /\ (state.tick > 100 \/ (state.tick = 100 /\ hist.updated # <<>>))
                => state.vehicles[i].current_speed >= 4500)
    /\ [][C18_Step]_vars

(* The update of tick 67 has taken the vehicle to 45 km/h or more, short   *)
(* of its target speed.                                                    *)
C18_Witness ==
    /\ state.tick = 67
    /\ hist.updated = <<101>>
    /\ state.vehicles[1].current_speed >= 4500
    /\ state.vehicles[1].current_speed < 5000
    /\ state.active_incidents = <<>>

(* The number of light updates made so far: the tick in progress has made  *)
(* its own once it is past its light phase                                 *)
LightUpdates ==
    IF \E t \in Tasks : task[t].pc \in {"spawn", "lights"}
    THEN state.tick - 1
    ELSE state.tick
ScenarioLight == state.intersections[1].traffic_lights[1]

C19_Step ==
    ScenarioLight'.current_phase # ScenarioLight.current_phase
    => /\ ScenarioLight.current_phase = RED
       /\ ScenarioLight'.current_phase = GREEN
       /\ state.tick = 300

(* C19: one intersection with one light (green 30 s, yellow 5 s, red 30 s) *)
(* that starts RED with no time elapsed, ticked at 100 ms with no vehicle  *)
(* waiting: the light is RED, with n x 100 ms elapsed, after each of the   *)
(* ticks n = 1..299; it is GREEN from the light update of tick 300 on; and *)
(* the only phase change is the one from RED to GREEN in tick 300.         *)
C19_RedForThirtySeconds ==
    /\ [](/\ Cardinality({i \in DOMAIN state.vehicles :
                              state.vehicles[i].waiting_at_light}) <= 5
          /\ LightUpdates < 300
             => /\ ScenarioLight.current_phase = RED
                /\ ScenarioLight.time_in_current_phase = LightUpdates * 100
          /\ LightUpdates >= 300
             => /\ ScenarioLight.current_phase = GREEN
                /\ ScenarioLight.time_in_current_phase = (LightUpdates - 300) * 100)
    /\ [][C19_Step]_vars

(* The light update of tick 300 has just turned the light GREEN. *)
C19_Witness ==
    /\ state.tick = 300
    /\ \E t \in Tasks : task[t].pc = "vehicles"
    /\ ScenarioLight.current_phase = GREEN
    /\ ScenarioLight.time_in_current_phase = 0

C20_Step ==
    response' # response
    => /\ state' = state
       /\ config' = config
       /\ running' = running
       /\ real_traffic_data' = real_traffic_data
       /\ listeners' = listeners
       /\ task' = task

(* C20: with no active vehicle calculate_emissions() returns an estimate   *)
(* whose five fields are 0, whatever state.average_speed holds; the        *)
(* estimate in every answer of the dashboard that counted no active        *)
(* vehicle is that one; and the call changes nothing of the engine.        *)
C20_EmptyEmissions ==
    /\ [](/\ state.vehicles = <<>>
             => calculate_emissions(state) = EmissionsEstimate(0, 0, 0, 0, 0)
          /\ (response # <<>> /\ response[1].vehicles_per_minute = 0)
             => response[1].emissions = EmissionsEstimate(0, 0, 0, 0, 0))
    /\ [][C20_Step]_vars

(* The dashboard was read when no vehicle was active and the stored        *)
(* average speed was still that of an evicted vehicle.                     *)
C20_Witness ==
    /\ response # <<>>
    /\ response[1].vehicles_per_minute = 0
    /\ response[1].average_speed > 0
    /\ response[1].emissions = EmissionsEstimate(0, 0, 0, 0, 0)

(* C21: when a tick returns, every listener registered at that time has    *)
(* been called exactly once, in the order of registration and after the    *)
(* metrics phase, also when one of the listeners raised.                   *)
C21_AllListenersNotified ==
    \A t \in Tasks :
        /\ task[t].pc = "returned" => hist.notified = listeners
        /\ hist.notified # <<>> => "metrics" \in Range(hist.ran)

(* A tick has returned with a raising listener registered before another   *)
(* one: only the first was called.                                         *)
C21_Witness ==
    /\ \E t \in Tasks : task[t].pc = "returned"
    /\ listeners = <<"raises", "ok">>
    /\ hist.notified = <<"raises">>

(* What only reset() does: the tick counter or the completed counter goes  *)
(* back, or intersections disappear                                        *)
ResetStep ==
    \/ state'.tick < state.tick
    \/ state'.vehicles_completed < state.vehicles_completed
    \/ Len(state'.intersections) < Len(state.intersections)

C22_Step ==
    ResetStep
    => /\ state'.tick = 0
       /\ state'.vehicles = <<>>
       /\ state'.intersections = <<>>
       /\ state'.active_incidents = <<>>
       /\ state'.vehicles_completed = 0
       /\ state'.total_vehicles = 0
       /\ state'.average_speed = 0
       /\ state'.total_wait_time = 0
       /\ state'.timestamp = clock
       /\ config' = config
       /\ running' = running
       /\ listeners' = listeners
       /\ real_traffic_data' = real_traffic_data
       /\ task' = task

(* C22: reset() leaves a fresh state - tick 0, no vehicles, no             *)
(* intersections, no incidents, vehicles_completed 0, zero metrics - and   *)
(* leaves the configuration, the running flag, the listeners, the traffic  *)
(* snapshot and the loop where they were.                                  *)
C22_ResetFresh == [][C22_Step]_vars

(* The engine was reset while RUNNING after its clock had advanced, with a *)
(* listener registered and a traffic snapshot stored.                      *)
C22_Witness ==
    /\ state.tick = 0
    /\ state.timestamp > 0
    /\ state = SimulationState(state.timestamp)
    /\ running
    /\ listeners # <<>>
    /\ real_traffic_data # NoSnapshot

(* A step of get(): the lookups counted go up by one *)
GetStep ==
    /\ returned'.op = "get"
    /\ response_cache'.hits + response_cache'.misses
           = response_cache.hits + response_cache.misses + 1

(* The key was set, not cleared since, and at most ttl_seconds ago *)
SetWithin(key, ttl_seconds) ==
    /\ cache_hist.last_set[key] # <<>>
    /\ key \notin cache_hist.cleared
    /\ time_now - cache_hist.last_set[key][2] <= ttl_seconds

C23_StepAsStated ==
    GetStep
    => returned'.value =
           IF SetWithin(returned'.key, returned'.ttl_seconds)
           THEN cache_hist.last_set[returned'.key][1]
           ELSE None

(* C23 as stated: get(key, ttl_seconds) returns the value of the last      *)
(* set(key, v) whenever that set happened at most ttl_seconds ago and no   *)
(* clear() came after it, and None otherwise.                              *)
C23_GetAsStated == [][C23_StepAsStated]_vars

C23_Step ==
    GetStep
    => LET key == returned'.key
           ttl_seconds == returned'.ttl_seconds
           kept == key \notin cache_hist.dropped
       IN  /\ returned'.value =
                  IF SetWithin(key, ttl_seconds) /\ kept
                  THEN cache_hist.last_set[key][1]
                  ELSE None
           /\ (/\ cache_hist.last_set[key] # <<>>
               /\ time_now - cache_hist.last_set[key][2] > ttl_seconds)
              => key \notin DOMAIN response_cache'.cache
           /\ \A k \in DOMAIN response_cache.cache \ {key} :
                  /\ k \in DOMAIN response_cache'.cache
                  /\ response_cache'.cache[k] = response_cache.cache[k]

(* C23: get(key, ttl_seconds) returns the value of the last set(key, v)    *)
(* when that set happened at most ttl_seconds ago and the entry was not    *)
(* removed since, by clear() or by a get() that found it expired; it       *)
(* returns None for a key never set, cleared, dropped or set more than     *)
(* ttl_seconds ago. A get() that finds the entry expired deletes it and    *)
(* no other entry.                                                         *)
C23_GetWithinTtl == [][C23_Step]_vars

(* A get() has just found an entry older than its ttl_seconds, returned    *)
(* None and deleted it, while the other key's entry is still there.        *)
C23_Witness ==
    /\ returned.op = "get"
    /\ returned.value = None
    /\ returned.key \in cache_hist.dropped
    /\ cache_hist.last_set[returned.key] # <<>>
    /\ returned.key \notin DOMAIN response_cache.cache
    /\ DOMAIN response_cache.cache # {}

(* A step in which a caller calls the wrapped function *)
CallStep == cache_hist'.begun = cache_hist.begun + 1

(* A call with these arguments completed within the TTL, with no           *)
(* clear_cache() since                                                     *)
CompletedWithin(x) ==
    /\ cache_hist.completed[x] # <<>>
    /\ time_now - cache_hist.completed[x][2] <= ttl_minutes * 60

C24_Step ==
    CallStep
    => LET x == cache_hist'.args
       IN  /\ CompletedWithin(x)
              => /\ call_count' = call_count
                 /\ returned' = [op |-> "call", args |-> x,
                                 value |-> cache_hist.completed[x][1]]
           /\ (/\ cache_hist.completed[x] = <<>>
               /\ cache_key(x) \notin DOMAIN response_cache.cache)
              => /\ call_count' = call_count + 1
                 /\ pending' # pending

(* C24: once a call of the wrapped function with given arguments has       *)
(* completed, a later call with equal arguments within the TTL returns     *)
(* the same result and does not execute the function again; a call with    *)
(* arguments not called before executes the function.                      *)
C24_CachedCall == [][C24_Step]_vars

(* C24, second part: the results of calls with different arguments are     *)
(* cached under separate entries.                                          *)
C24_SeparateEntries ==
    \A x \in ArgDraws, y \in ArgDraws :
        /\ x # y => cache_key(x) # cache_key(y)
        /\ cache_key(x) \in DOMAIN response_cache.cache
           => response_cache.cache[cache_key(x)][1] = wrapped[x]

(* The wrapped function returned None for an argument, and a second call   *)
(* with that argument within the TTL executed it again.                    *)
C24_Witness ==
    \E x \in ArgDraws, c \in Callers :
        /\ wrapped[x] = None
        /\ cache_hist.completed[x] # <<>>
        /\ time_now - cache_hist.completed[x][2] <= ttl_minutes * 60
        /\ pending[c] = <<x>>
        /\ call_count = 2

(* The vehicles waiting closer than 50 m to the intersection of a light *)
WaitingCount(p) ==
    Cardinality({i \in DOMAIN state.vehicles :
        /\ state.vehicles[i].waiting_at_light
        /\ calculate_distance(state.vehicles[i].position,
                              state.intersections[p[1]].location) < 5000})
(* 100 x the effective duration of a light's phase, in milliseconds *)
EffectiveDuration(p) ==
    LET light == LightAt(state, p)
    IN CASE light.current_phase = GREEN /\ WaitingCount(p) > 5 ->
               light.green_duration * 1000 * (100 + Min(50, WaitingCount(p) * 5))
         [] light.current_phase = GREEN -> light.green_duration * 1000 * 100
         [] light.current_phase = YELLOW -> light.yellow_duration * 1000 * 100
         [] light.current_phase = RED -> light.red_duration * 1000 * 100
(* The step is the light update of the tick of task t *)
LightStep(t) ==
    /\ task[t].pc = "lights"
    /\ state'.intersections # state.intersections

C25_Step ==
    \A t \in Tasks :
        LightStep(t)
        => \A p \in LightPlaces(state) :
              LET light == LightAt(state, p)
                  elapsed == light.time_in_current_phase + task[t].dt
                  left == LightAt(state, p)'.current_phase # light.current_phase
              IN  /\ left <=> elapsed * 100 >= EffectiveDuration(p)
                  /\ light.time_in_current_phase * 100 < EffectiveDuration(p)
                  /\ (left /\ light.current_phase = GREEN)
                     => /\ elapsed >= light.green_duration * 1000
                        /\ 2 * elapsed <= 3 * light.green_duration * 1000
                                             + 2 * task[t].dt

(* C25: a light leaves its phase in the first tick in which the elapsed    *)
(* time reaches the effective duration: the configured duration for RED    *)
(* and YELLOW and for GREEN with at most 5 vehicles waiting within 50 m of *)
(* the intersection, green_duration x (1 + min(0.5, waiting_count x 0.05)) *)
(* for GREEN with more than 5. GREEN never ends before green_duration and  *)
(* never lasts beyond 1.5 x green_duration plus one tick.                  *)
C25_GreenExtension ==
    /\ [][C25_Step]_vars
    /\ [](\A p \in LightPlaces(state) :
             LightAt(state, p).current_phase = GREEN
             => 2 * LightAt(state, p).time_in_current_phase
                   < 3 * LightAt(state, p).green_duration * 1000)

(* With 6 vehicles waiting within 50 m, the light with green_duration 1 s  *)
(* has just left GREEN in tick 13, after 1.3 s.                            *)
C25_Witness ==
    /\ Len(state.vehicles) = 6
    /\ state.tick = 13
    /\ "lights" \in Range(hist.ran)
    /\ state.intersections[1].traffic_lights[1].green_duration = 1
    /\ state.intersections[1].traffic_lights[1].current_phase = YELLOW
    /\ state.intersections[1].traffic_lights[1].time_in_current_phase = 0
    /\ \A i \in DOMAIN state.vehicles : state.vehicles[i].waiting_at_light

(* The step is a timing adjustment that changed a light *)
AdjustStep ==
    /\ Len(state'.intersections) = Len(state.intersections)
    /\ state'.intersections # state.intersections
    /\ \A t \in Tasks : ~LightStep(t)
(* The light with the supplied durations written over its own *)
Adjusted(light, d) ==
    [light EXCEPT !.green_duration = IF d[1] # None THEN d[1] ELSE @,
                  !.yellow_duration = IF d[2] # None THEN d[2] ELSE @,
                  !.red_duration = IF d[3] # None THEN d[3] ELSE @]

C26_Step ==
    /\ AdjustStep
       => /\ \E p \in LightPlaces(state), d \in TimingDraws :
                /\ LightAt(state, p)' = Adjusted(LightAt(state, p), d)
                /\ \A q \in LightPlaces(state) \ {p} :
                      LightAt(state, q)' = LightAt(state, q)
          /\ \A i \in DOMAIN state.intersections :
                /\ state'.intersections[i].id = state.intersections[i].id
                /\ state'.intersections[i].location = state.intersections[i].location
                /\ Len(state'.intersections[i].traffic_lights)
                       = Len(state.intersections[i].traffic_lights)
          /\ state'.vehicles = state.vehicles
          /\ state'.tick = state.tick
    /\ \A t \in Tasks :
          LightStep(t)
          => \A p \in LightPlaces(state) :
                (LightAt(state, p)'.current_phase # LightAt(state, p).current_phase)
                <=> (LightAt(state, p).time_in_current_phase + task[t].dt) * 100
                       >= EffectiveDuration(p)

(* C26: adjust_traffic_light_timing on the identity of a light returns     *)
(* True and writes exactly the supplied durations over that light's; its   *)
(* other durations, its phase and elapsed time and every other light are   *)
(* unchanged; the next light update compares the elapsed time with the new *)
(* duration of the current phase.                                          *)
C26_AdjustTiming ==
    /\ [](\A p \in LightPlaces(state) :
             adjust_found(state.intersections, LightAt(state, p).id))
    /\ [][C26_Step]_vars

(* Of two lights one is RED with 1 s elapsed after its red_duration was    *)
(* lowered from 2 s to 1 s (and its yellow_duration set to 2 s), the       *)
(* other keeps the durations it was created with.                          *)
C26_Witness ==
    /\ Cardinality(LightPlaces(state)) = 2
    /\ \E p \in LightPlaces(state), q \in LightPlaces(state) :
          /\ p # q
          /\ LightAt(state, p).current_phase = RED
          /\ LightAt(state, p).time_in_current_phase = 1000
          /\ LightAt(state, p).green_duration = 2
          /\ LightAt(state, p).yellow_duration = 2
          /\ LightAt(state, p).red_duration = 1
          /\ LightAt(state, q).yellow_duration = 1

(* The vehicle Updating(t) with dt added to its wait time and its waiting  *)
(* flag cleared                                                            *)
Released(t) ==
    [Updating(t) EXCEPT !.wait_time_seconds = @ + task[t].dt,
                        !.waiting_at_light = FALSE]

C27_Step ==
    \A t \in Tasks :
        (UpdateStep(t) /\ Updating(t).waiting_at_light)
        => /\ Updated(t).wait_time_seconds
                 = Updating(t).wait_time_seconds + task[t].dt
           /\ can_proceed(Updating(t), state.intersections)
              => Updated(t) = update_vehicle(Released(t), state.vehicles,
                                 state.intersections, state.active_incidents,
                                 config, task[t].dt)
           /\ ~can_proceed(Updating(t), state.intersections)
              => Updated(t) = [Updating(t) EXCEPT !.wait_time_seconds =
                                                      @ + task[t].dt]

(* C27: the update of a waiting vehicle adds dt to its wait time; when its *)
(* controlling light is GREEN the flag is cleared and the remaining steps  *)
(* of the update (speed caps, acceleration, light check, movement) are     *)
(* done for it in the same tick; when it is not released nothing else      *)
(* changes.                                                                *)
C27_ReleasedMovesOn == [][C27_Step]_vars

(* A vehicle that waited at a GREEN light has been released by this tick's *)
(* update and stands where it stood, with speed 0.                         *)
C27_Witness ==
    /\ hist.updated # <<>>
    /\ state.intersections # <<>>
    /\ state.intersections[1].traffic_lights[1].current_phase = GREEN
    /\ \E i \in DOMAIN state.vehicles :
          /\ state.vehicles[i].id \in Range(hist.updated)
          /\ state.vehicles[i].current_segment_id = 7
          /\ ~state.vehicles[i].waiting_at_light
          /\ state.vehicles[i].wait_time_seconds = 100
          /\ state.vehicles[i].current_speed = 0
          /\ state.vehicles[i].position = Waiting(1, 180).position

(* The vehicle Updating(t) after the speed steps of its update, that is,   *)
(* as the light check finds it                                             *)
AtLightCheck(t) ==
    accelerate([Updating(t) EXCEPT !.target_speed =
                   cap_target_speed(Updating(t), state.vehicles,
                                    state.active_incidents)],
               config, task[t].dt)
(* A light that controls the vehicle's segment is RED or YELLOW and its    *)
(* intersection is closer than the braking distance plus 10 m              *)
MustStop(v) ==
    \E i \in DOMAIN state.intersections :
        /\ calculate_distance(v.position, state.intersections[i].location)
              < stopping_distance(v, config) + 1000
        /\ \E j \in DOMAIN state.intersections[i].traffic_lights :
              /\ v.current_segment_id
                    \in state.intersections[i].traffic_lights[j].controlled_segment_ids
              /\ state.intersections[i].traffic_lights[j].current_phase
                    \in {RED, YELLOW}

C28_Step ==
    /\ \A t \in Tasks :
          (UpdateStep(t) /\ ~Updating(t).waiting_at_light /\ MustStop(AtLightCheck(t)))
          => /\ Updated(t).waiting_at_light
             /\ Updated(t).current_speed = 0
             /\ Updated(t).position = Updating(t).position
    /\ \A i \in DOMAIN state.vehicles, k \in DOMAIN state'.vehicles :
          (/\ state.vehicles[i].id = state'.vehicles[k].id
           /\ state.vehicles[i].waiting_at_light
           /\ state'.vehicles[k].waiting_at_light)
          => /\ state'.vehicles[k].position = state.vehicles[i].position
             /\ state'.vehicles[k].wait_time_seconds
                   >= state.vehicles[i].wait_time_seconds
             /\ state'.vehicles[k].current_speed = 0

(* C28: the update of a vehicle that finds a RED or YELLOW light of its    *)
(* segment within braking distance plus 10 m sets waiting_at_light, sets   *)
(* current_speed to 0 and leaves the position; every waiting vehicle has   *)
(* current_speed 0; while a vehicle stays waiting its position does not    *)
(* change and its wait time does not decrease.                             *)
C28_StopsAndWaits ==
    /\ [](\A i \in DOMAIN state.vehicles :
             state.vehicles[i].waiting_at_light
             => state.vehicles[i].current_speed = 0)
    /\ [][C28_Step]_vars

(* The vehicle that approached the crossing at 50 km/h has been stopped    *)
(* by its update where it was, 20 m short of the crossing, and has waited  *)
(* through a later update.                                                 *)
C28_Witness ==
    \E i \in DOMAIN state.vehicles :
        /\ state.vehicles[i].id = Approaching.id
        /\ state.vehicles[i].waiting_at_light
        /\ state.vehicles[i].current_speed = 0
        /\ state.vehicles[i].position = Approaching.position
        /\ state.vehicles[i].wait_time_seconds > 0

(* The compass bearing from a to b in degrees, 0 = north, 90 = east *)
Bearing(a, b) == (450 - atan2_degrees(b.lat - a.lat, b.lng - a.lng)) % 360
(* The vehicles ahead of v as the claim describes them: closer than 200 m, *)
(* within 45 degrees of v's heading, with positive forward projection      *)
Leaders(v) ==
    {i \in DOMAIN state.vehicles :
        /\ state.vehicles[i].id # v.id
        /\ calculate_distance(v.position, state.vehicles[i].position) < 20000
        /\ projection(v.position, state.vehicles[i].position, v.heading) > 0
        /\ same_direction(Abs(Bearing(v.position, state.vehicles[i].position)
                                 - v.heading))}
(* The nearest of them is closer than the distance v covers in 2 seconds *)
TooClose(v, i) ==
    /\ i \in Leaders(v)
    /\ \A j \in Leaders(v) :
          calculate_distance(v.position, state.vehicles[i].position)
             <= calculate_distance(v.position, state.vehicles[j].position)
    /\ calculate_distance(v.position, state.vehicles[i].position)
          < (v.current_speed * 5) \div 9

C29_Step ==
    \A t \in Tasks :
        (UpdateStep(t) /\ ~Updating(t).waiting_at_light)
        => \A i \in DOMAIN state.vehicles :
              TooClose(Updating(t), i)
              => Updated(t).target_speed
                    = Min(Updating(t).target_speed,
                          (state.vehicles[i].current_speed * 9) \div 10)

(* C29: the update of a non-waiting vehicle whose nearest vehicle ahead    *)
(* (closer than 200 m, within 45 degrees of its heading, with positive     *)
(* forward projection) is closer than its own 2-second distance leaves its *)
(* target_speed at min(target_speed, 0.9 x the leader's current_speed); a  *)
(* stopped leader 50 m straight ahead of a vehicle at 100 km/h caps the    *)
(* target_speed at 0.                                                      *)
C29_HeadwayCap == [][C29_Step]_vars

(* The vehicle at 100 km/h has been updated with a stopped vehicle 50 m    *)
(* straight ahead of it, and its target_speed is still 100 km/h.           *)
C29_Witness ==
    /\ Len(state.vehicles) = 2
    /\ state.tick = 1
    /\ Chasing.id \in Range(hist.updated)
    /\ state.vehicles[1].id = Chasing.id
    /\ state.vehicles[1].target_speed = 10000
    /\ state.vehicles[2].current_speed = 0
    /\ state.vehicles[2].position = Center
    /\ calculate_distance(Chasing.position, Center) \in 4900..5100

(* The step is the interaction phase of the tick of task t *)
InteractionStep(t) ==
    /\ task[t].pc = "interactions"
    /\ hist'.ran # hist.ran
(* Vehicles i and j are closer than min_following_distance and their       *)
(* headings differ by less than 45 degrees                                 *)
ClosePair(i, j) ==
    /\ i # j
    /\ calculate_distance(state.vehicles[i].position, state.vehicles[j].position)
          < config.min_following_distance * 100
    /\ same_direction(Abs(state.vehicles[i].heading - state.vehicles[j].heading))
(* Vehicle f has a negative projection onto the heading of vehicle l *)
Follows(f, l) ==
    projection(state.vehicles[l].position, state.vehicles[f].position,
               state.vehicles[l].heading) < 0
(* The least of a vehicle's target speed and 0.9 x the speeds of the       *)
(* vehicles it follows in a close pair                                     *)
CappedTarget(f) ==
    MinOrNone({state.vehicles[f].target_speed}
              \cup {(state.vehicles[l].current_speed * 9) \div 10 :
                      l \in {k \in DOMAIN state.vehicles :
                                ClosePair(f, k) /\ Follows(f, k)}})

C30_Step ==
    \A t \in Tasks :
        InteractionStep(t)
        => /\ Len(state'.vehicles) = Len(state.vehicles)
           /\ \A i \in DOMAIN state.vehicles :
                 /\ state'.vehicles[i].target_speed = CappedTarget(i)
                 /\ state'.vehicles[i].current_speed = state.vehicles[i].current_speed
                 /\ state'.vehicles[i].position = state.vehicles[i].position
           /\ \A i \in DOMAIN state.vehicles, j \in DOMAIN state.vehicles :
                 ClosePair(i, j) => (Follows(i, j) <=> ~Follows(j, i))

(* C30: the interaction phase takes, of every pair of vehicles closer than *)
(* min_following_distance with headings less than 45 degrees apart, the    *)
(* one with negative projection onto the other's heading as follower and   *)
(* lowers its target_speed to min(target_speed, 0.9 x the leader's         *)
(* current_speed); it changes no other target_speed, no current_speed and  *)
(* no position.                                                            *)
C30_PairwiseResolution == [][C30_Step]_vars

(* The interaction phase has lowered the target_speed of the vehicle       *)
(* heading 30 degrees to 0.9 x the speed of the vehicle heading north,     *)
(* which it is in front of.                                                *)
C30_Witness ==
    /\ Len(state.vehicles) = 2
    /\ "interactions" \in Range(hist.ran)
    /\ state.vehicles[1].id = Trailing.id
    /\ state.vehicles[2].id = Skewed.id
    /\ state.vehicles[2].position.lat > state.vehicles[1].position.lat
    /\ state.vehicles[2].target_speed = (state.vehicles[1].current_speed * 9) \div 10
    /\ state.vehicles[1].target_speed = 5000

(* The index of the vehicle Updating(t) *)
UpdatingIndex(t) == IndexOf(state.vehicles, Head(task[t].todo))

C31_StepAsStated ==
    \A t \in Tasks :
        (UpdateStep(t) /\ ~Updating(t).waiting_at_light)
        => Updated(t).target_speed <= CappedTarget(UpdatingIndex(t))

C31_Step ==
    \A t \in Tasks :
        /\ (UpdateStep(t) /\ ~Updating(t).waiting_at_light)
           => /\ Updated(t).target_speed
                    = cap_target_speed(Updating(t), state.vehicles,
                                       state.active_incidents)
              /\ Updated(t).current_speed
                    \in {0, approach_speed(
                               [Updating(t) EXCEPT !.target_speed =
                                   Updated(t).target_speed],
                               config, task[t].dt)}
        /\ InteractionStep(t)
           => /\ "vehicles" \in Range(hist.ran)
              /\ hist.updated = hist.at_vehicles
              /\ \A i \in DOMAIN state.vehicles :
                    /\ state'.vehicles[i].target_speed
                          <= state.vehicles[i].target_speed
                    /\ state'.vehicles[i].current_speed
                          = state.vehicles[i].current_speed
                    /\ state'.vehicles[i].position = state.vehicles[i].position

HourlyTotal(rate, a, n) ==
    (((rate * (1000 + (Abs(a - 6000) * 1000) \div 6000)) \div 1000) * a * n) \div 100

(* The estimate e is the one of n vehicles at speed a *)
EstimateAt(e, a, n) ==
    /\ e.co2_kg_per_hour = HourlyTotal(120, a, n)
    /\ e.nox_grams_per_hour = HourlyTotal(500, a, n)
    /\ e.fuel_liters_per_hour = HourlyTotal(80, a, n)
    /\ e.avg_co2_per_vehicle = e.co2_kg_per_hour \div n
    /\ e.avg_fuel_per_vehicle = e.fuel_liters_per_hour \div n

C32_StepAsStated ==
    (response' # response /\ state.vehicles # <<>>)
    => /\ EstimateAt(response'[1].emissions, state.average_speed,
                     Len(state.vehicles))
       /\ state.average_speed = 0
          => /\ response'[1].emissions.co2_kg_per_hour = 0
             /\ response'[1].emissions.nox_grams_per_hour = 0
             /\ response'[1].emissions.fuel_liters_per_hour = 0

(* C32 as stated: for a non-empty vehicle set the estimate is computed     *)
(* from the state's average speed as it is, so that all hourly totals are  *)
(* 0 when every active vehicle is stopped.                                 *)
C32_EmissionsAsIs == [][C32_StepAsStated]_vars

C32_Step ==
    (response' # response /\ state.vehicles # <<>>)
    => /\ EstimateAt(response'[1].emissions,
                     IF state.average_speed = 0 THEN 3000
                     ELSE state.average_speed,
                     Len(state.vehicles))
       /\ state.average_speed = 0
          => /\ response'[1].emissions.co2_kg_per_hour > 0
             /\ response'[1].emissions.nox_grams_per_hour > 0
             /\ response'[1].emissions.fuel_liters_per_hour > 0

(* C32: for a non-empty vehicle set calculate_emissions() uses the state's *)
(* average speed a when a is not 0 and 30 km/h when a is 0: factor =       *)
(* 1 + |a - 60| / 60, hourly totals = per-km factor (0.12 kg CO2, 0.5 g    *)
(* NOx, 0.08 l fuel) x factor x a x vehicle count, per-vehicle averages =  *)
(* totals / vehicle count; when every active vehicle is stopped the        *)
(* hourly totals are those of 30 km/h and are not 0.                       *)
C32_Emissions == [][C32_Step]_vars

(* The dashboard was read after a tick that left the only vehicle waiting  *)
(* at a red light: average speed 0, estimate that of 30 km/h.              *)
C32_Witness ==
    /\ response # <<>>
    /\ state.tick >= 1
    /\ "metrics" \in Range(hist.ran)
    /\ Len(state.vehicles) = 1
    /\ state.vehicles[1].current_speed = 0
    /\ state.average_speed = 0
    /\ response[1].average_speed = 0
    /\ response[1].emissions = emissions_at(3000, 1)
    /\ response[1].emissions.co2_kg_per_hour > 0

(* The task t is inside the while loop of start() *)
Looping(t) == task[t].pc \notin {"none", "created", "done", "failed"}

(* C33: while the engine is running at most one task is inside the loop    *)
(* of start(): a stop() followed by a start() while the old loop sleeps    *)
(* between two ticks does not leave two loops ticking the same engine.     *)
C33_SingleLoop == running => Cardinality({t \in Tasks : Looping(t)}) <= 1

(* Two loops are inside start() with the running flag set, and one of them *)
(* has begun a tick after ticks had already been made.                     *)
C33_TwoLoops ==
    /\ running
    /\ \A t \in Tasks : Looping(t)
    /\ \E t \in Tasks : task[t].pc = "tick"
    /\ state.tick >= 1

(* The ids of the segments of the stored snapshot *)
SnapshotSegments(rtd) ==
    IF rtd = <<>> THEN {}
    ELSE {rtd[1].segments[k].id : k \in DOMAIN rtd[1].segments}

C34_StepAsStated ==
    \A i \in DOMAIN state.vehicles, j \in DOMAIN state'.vehicles :
        (state.vehicles[i].id = state'.vehicles[j].id
            /\ state.vehicles[i].target_speed = 0)
        => state'.vehicles[j].position = state.vehicles[i].position

(* C34 as stated: a vehicle whose target_speed reached 0 never moves       *)
(* again.                                                                  *)
C34_NeverMovesAgain == [][C34_StepAsStated]_vars

C34_Step ==
    \A i \in DOMAIN state.vehicles, j \in DOMAIN state'.vehicles :
        state.vehicles[i].id = state'.vehicles[j].id
        => /\ state'.vehicles[j].target_speed > state.vehicles[i].target_speed
              => /\ task' = task
                 /\ state.vehicles[i].current_segment_id
                        \in SnapshotSegments(real_traffic_data')
           /\ (state.vehicles[i].target_speed = 0 /\ task' # task)
              => /\ state'.vehicles[j].target_speed = 0
                 /\ state'.vehicles[j].current_speed
                        <= state.vehicles[i].current_speed
                 /\ state.vehicles[i].current_speed = 0
                    => state'.vehicles[j].position = state.vehicles[i].position

(* C34: no step of a tick raises a vehicle's target_speed, also after the  *)
(* incident is removed or the leader has left; only                        *)
(* update_real_traffic_data raises it, for a vehicle whose                 *)
(* current_segment_id is a segment of the snapshot; a vehicle whose        *)
(* target_speed reached 0 never accelerates in a tick and, once at rest,   *)
(* does not move.                                                          *)
C34_TargetNeverRaised == [][C34_Step]_vars

(* The vehicle was slowed by an accident at its place in tick 1, the       *)
(* incident was removed, and after tick 2 its target_speed is still the    *)
(* lowered one.                                                            *)
C34_Witness ==
    /\ state.tick = 2
    /\ state.active_incidents = <<>>
    /\ "metrics" \in Range(hist.ran)
    /\ \E i \in DOMAIN state.vehicles :
          /\ state.vehicles[i].id = Approaching.id
          /\ state.vehicles[i].target_speed = (Approaching.target_speed * 7) \div 10
          /\ state.vehicles[i].position # Approaching.position

(* The vehicles the engine spawned: their ids are drawn from uuid *)
Spawned(st) == {i \in DOMAIN st.vehicles : st.vehicles[i].id <= IdBound}

C35_Step ==
    \A i \in DOMAIN state.vehicles, j \in DOMAIN state'.vehicles :
        state.vehicles[i].id = state'.vehicles[j].id
        => state'.vehicles[j].current_segment_id
              = state.vehicles[i].current_segment_id

(* C35: an engine-spawned vehicle has no current_segment_id and no engine  *)
(* operation sets one; no light's controlled_segment_ids contains the      *)
(* unset value; such a vehicle is never waiting at a light and its         *)
(* wait_time_seconds stays 0, whatever the phases of the lights near it.   *)
C35_SpawnedNeverWaits ==
    /\ [](/\ \A i \in Spawned(state) :
                /\ state.vehicles[i].current_segment_id = None
                /\ ~state.vehicles[i].waiting_at_light
                /\ state.vehicles[i].wait_time_seconds = 0
          /\ \A p \in LightPlaces(state) :
                None \notin LightAt(state, p).controlled_segment_ids)
    /\ [][C35_Step]_vars

(* A spawned vehicle was updated 5 m from a crossing whose light is RED:   *)
(* it moved on and is not waiting.                                         *)
C35_Witness ==
    /\ state.tick >= 1
    /\ "metrics" \in Range(hist.ran)
    /\ state.intersections # <<>>
    /\ \A p \in LightPlaces(state) : LightAt(state, p).current_phase = RED
    /\ \E i \in Spawned(state) :
          /\ calculate_distance(state.vehicles[i].position,
                                state.intersections[1].location) < 1000
          /\ state.vehicles[i].current_speed > 0
          /\ ~state.vehicles[i].waiting_at_light

(* The vehicles a step evicts and the vehicles it spawns *)
EvictedInStep ==
    IF hist.evicted \subseteq hist'.evicted
    THEN Cardinality(hist'.evicted \ hist.evicted) ELSE 0
SpawnedInStep == uuid' - uuid

C36_Step ==
    /\ ResetStep => (state'.vehicles = <<>> /\ state'.vehicles_completed = 0)
    /\ ~ResetStep
       => Len(state'.vehicles) + state'.vehicles_completed + EvictedInStep
             = Len(state.vehicles) + state.vehicles_completed + SpawnedInStep
    /\ (real_traffic_data = NoSnapshot /\ \E t \in Tasks : task[t].pc = "despawn")
       => /\ state'.vehicles = state.vehicles
          /\ state'.vehicles_completed = state.vehicles_completed

(* C36: the number of vehicles spawned since the last reset() equals the   *)
(* active vehicles plus vehicles_completed plus the vehicles evicted       *)
(* because their update raised: reset() empties the vehicle list and       *)
(* zeroes vehicles_completed, and every other step adds to active +        *)
(* completed + evicted exactly what it spawns.  Without a stored traffic   *)
(* snapshot the despawn phase removes no vehicle and vehicles_completed    *)
(* is 0.                                                                   *)
C36_Census ==
    /\ [](real_traffic_data = NoSnapshot => state.vehicles_completed = 0)
    /\ [][C36_Step]_vars

(* With no reset so far, a tick has returned in which one vehicle was      *)
(* evicted; another vehicle had left the area and was counted, and the     *)
(* identities handed out are the active, completed and evicted vehicles.   *)
C36_Witness ==
    /\ task[1].pc \in {"returned", "sleep"}
    /\ "notify" \in Range(hist.ran)
    /\ state.tick = 2
    /\ state.vehicles_completed >= 1
    /\ hist.evicted # {}
    /\ uuid = Len(state.vehicles) + state.vehicles_completed
                 + Cardinality(hist.evicted)

(* The vehicles that wait when the engine is started *)
ReleaseIds == {Waiting(1, 0).id, Waiting(2, 0).id}

IsWaiting(id) ==
    \E i \in DOMAIN state.vehicles :
        state.vehicles[i].id = id /\ state.vehicles[i].waiting_at_light

(* The ticks of one cycle of the light that controls segment 7, and the    *)
(* ticks the run may still make                                            *)
CycleTicks ==
    LET l == state.intersections[1].traffic_lights[1]
        cycle == (l.green_duration + l.yellow_duration + l.red_duration) * 1000
    IN (cycle + config.tick_interval_ms - 1) \div config.tick_interval_ms
TicksLeft == TickBound - state.tick

(* The update of the vehicle in this tick cleared its flag under GREEN *)
ReleasedNow(id) ==
    /\ id \in Range(hist.updated)
    /\ state.intersections[1].traffic_lights[1].current_phase = GREEN
    /\ \E i \in DOMAIN state.vehicles :
          state.vehicles[i].id = id /\ ~state.vehicles[i].waiting_at_light

(* C37: while ticks keep running and the durations of the controlling      *)
(* light stay as they are, every waiting vehicle is eventually released:   *)
(* within one cycle of the light there is a tick whose vehicle phase finds *)
(* the light GREEN and clears the vehicle's waiting flag.                  *)
C37_EventuallyReleased ==
    \A id \in ReleaseIds :
        (IsWaiting(id) /\ TicksLeft >= CycleTicks) ~> ReleasedNow(id)

(* A vehicle that waited through the yellow and the red phase has been     *)
(* released by the update of the tick in which the light turned GREEN.     *)
C37_Witness ==
    /\ ReleasedNow(Waiting(1, 0).id)
    /\ state.intersections[1].traffic_lights[1].time_in_current_phase = 0
    /\ \E i \in DOMAIN state.vehicles :
          /\ state.vehicles[i].id = Waiting(1, 0).id
          /\ state.vehicles[i].wait_time_seconds >= 3

(* The vehicles waiting within 50 m of intersection i, and the sum of      *)
(* their wait times                                                        *)
WaitingNear(i) ==
    {k \in DOMAIN state.vehicles :
        /\ state.vehicles[k].waiting_at_light
        /\ calculate_distance(state.vehicles[k].position,
                              state.intersections[i].location) < 5000}
WaitTotal[W \in SUBSET DOMAIN state.vehicles] ==
    IF W = {} THEN 0
    ELSE LET k == CHOOSE m \in W : TRUE
         IN state.vehicles[k].wait_time_seconds + WaitTotal[W \ {k}]

C38_Step ==
    \A t \in Tasks :
        (task[t].pc = "metrics" /\ task'[t].pc = "notify")
        => \A i \in DOMAIN state.intersections :
              state'.intersections[i].average_wait_time
                 = IF WaitingNear(i) # {}
                   THEN WaitTotal[WaitingNear(i)] \div Cardinality(WaitingNear(i))
                   ELSE state.intersections[i].average_wait_time

(* C38: the metrics phase sets an intersection's average_wait_time to the  *)
(* mean wait time of the vehicles now waiting within 50 m of it when there *)
(* is one, and leaves the field as it is when there is none.               *)
C38_AverageWaitKept == [][C38_Step]_vars

(* The metrics phase ran with no vehicle waiting any more, and the         *)
(* intersection still shows the average of the earlier tick, which is the  *)
(* wait of the near vehicle and not that of the one 66 m away.             *)
C38_Witness ==
    /\ "metrics" \in Range(hist.ran)
    /\ Len(state.vehicles) = 2
    /\ \A k \in DOMAIN state.vehicles : ~state.vehicles[k].waiting_at_light
    /\ state.vehicles[2].wait_time_seconds > 10000
    /\ state.intersections[1].average_wait_time > 0
    /\ state.intersections[1].average_wait_time < 10000

C39_Step ==
    \A x \in ArgDraws :
        /\ (/\ CallStep
            /\ cache_hist'.args = x
            /\ \E c \in Callers : pending[c] = <<x>>
            /\ cache_hist.completed[x] = <<>>)
           => /\ returned'.op = "await"
              /\ response_cache'.misses = response_cache.misses + 1
              /\ call_count' = call_count + 1
        /\ (\E c \in Callers : pending[c] = <<x>> /\ pending'[c] = <<>>)
           => /\ returned'.value = wrapped[x]
              /\ response_cache'.cache[cache_key(x)] = <<returned'.value, time_now>>

(* C39: a call of the wrapped function that starts while another call     *)
(* with equal arguments is in flight, none having completed, misses the    *)
(* cache and executes the function too; every completion stores its own    *)
(* result, so the entry in the cache is that of the call that completed    *)
(* last.                                                                   *)
C39_OverlappingCalls ==
    /\ [](\A x \in ArgDraws :
            cache_key(x) \in DOMAIN response_cache.cache
            => response_cache.cache[cache_key(x)] = cache_hist.completed[x])
    /\ [][C39_Step]_vars

(* With no time passed and no clear, two calls with equal arguments both   *)
(* missed and both executed; they returned different results and the       *)
(* cache holds the one of the call that completed last.                    *)
C39_Witness ==
    \E x \in ArgDraws :
        /\ time_now = 0
        /\ cache_hist.cleared = {}
        /\ \A c \in Callers : pending[c] = <<>>
        /\ response_cache.misses = 2
        /\ response_cache.hits = 0
        /\ call_count = 2
        /\ cache_hist.previous[x] # <<>>
        /\ cache_hist.completed[x] # <<>>
        /\ cache_hist.previous[x][1] # cache_hist.completed[x][1]
        /\ response_cache.cache[cache_key(x)] = cache_hist.completed[x]

====
